---- MODULE Spec2Model ----
(***************************************************************************)
(* A model of nc-check's check-execution and status-aggregation engine:    *)
(*   - core/coverage.py   status_from_leaf_statuses                        *)
(*   - suite.py           run_atomic_check, CheckSuite.run                 *)
(*   - engine/registry.py the process-wide registry of checks              *)
(*   - engine/runner.py   run_suite_checks                                 *)
(* Python dictionaries are functions whose DOMAIN is the set of keys; an   *)
(* insertion-ordered dictionary is a sequence of entries with distinct     *)
(* keys.  Python's None is the string "None" where a field may be absent.  *)
(***************************************************************************)
EXTENDS Integers, Sequences, FiniteSets, TLC

VARIABLES
    statuses,      \* status_from_leaf_statuses: the list of leaf statuses passed in
    leaf_status,   \* its return value ("pending" until the call returned)
    atomic_call,   \* run_atomic_check: the arguments of the last call
    atomic_return, \* how that call ended: what it returned or what it let propagate
    suite_checks,  \* CheckSuite.checks: the list of definitions of the suite
    dataset,       \* the CanonicalDataset handed to CheckSuite.run
    cs_pc,         \* CheckSuite.run: "idle", "scope" (head of the scope loop),
                   \*   "check" (inside the target and definition loops), "done"
    cs_scope,      \* index into the scope order of the scope being processed
    cs_target,     \* index of the current target in scope_targets
    cs_def,        \* index of the current definition in scope_definitions
    results,       \* the list of outcomes collected so far (report.checks)
    variable_results,  \* outcomes of the current target, by definition name
    scope_hierarchy,   \* outcomes of the current scope, by target
    hierarchy,     \* report.results: outcomes by scope, target and definition name
    summary,       \* report.summary, set when the run returns
    calls,         \* history: the (definition, target) runs in execution order
    registry,      \* engine/registry.py _REGISTRY, in insertion order
    registrations, \* number of register_check calls made by third parties
    rs_pc,         \* the caller's call: "idle", "returned", "raised" or "looked_up"
    rs_enabled,    \* its checks_enabled argument, in insertion order
    rs_runs,       \* what run_report of each check does on the dataset given
    rs_result,     \* the SuiteReport returned, or the exception that left the call
    invoked,       \* history: the keys whose run_report was called, in call order
    gc_key,        \* engine get_check: the key a caller asked for
    gc_result,     \* the entry it returned, or the KeyError it raised
    fl_key,        \* _flatten_atomic_checks: its group_key argument
    fl_report,     \* its report argument
    fl_checks,     \* the list it returned
    fl_pc,         \* "idle", "called" or "returned"
    cr_checks,     \* plugins/registry.py CheckRegistry._checks, in insertion order
    cr_first,      \* history: for each name, the entry of its first registration
    cr_last,       \* the last call on the CheckRegistry and how it ended
    ir_indices,    \* indices_to_ranges: its indices argument
    ir_ranges,     \* the list of (start, end) it returned
    ir_pc,         \* "idle", "called" or "returned"
    dt_check,      \* the detector (a Check of checks/) whose run_report is called
    dt_data,       \* the data of the dataset it is given
    dt_report,     \* the report it returned
    dt_pc          \* "idle", "called" or "returned"

leafVars == <<statuses, leaf_status>>
atomicVars == <<atomic_call, atomic_return>>
suiteVars ==
    <<suite_checks, dataset, cs_pc, cs_scope, cs_target, cs_def, results,
      variable_results, scope_hierarchy, hierarchy, summary, calls>>

engineVars ==
    <<registry, registrations, rs_pc, rs_enabled, rs_runs, rs_result, invoked,
      gc_key, gc_result>>
flattenVars == <<fl_key, fl_report, fl_checks, fl_pc>>
registryVars == <<cr_checks, cr_first, cr_last>>
rangeVars == <<ir_indices, ir_ranges, ir_pc>>
detectorVars == <<dt_check, dt_data, dt_report, dt_pc>>

vars ==
    <<leafVars, atomicVars, suiteVars, engineVars, flattenVars, registryVars, rangeVars, detectorVars>>

None == "None"

----------------------------------------------------------------------------
(* The state of each component before it is called *)

LeafIdle ==
    /\ statuses = <<>>
    /\ leaf_status = "pending"

\* a dict with no key
EmptyDict == [k \in {} |-> None]

\* the values that stand for "nothing yet" in a field of each type
NoData == [name |-> None, has_nan |-> FALSE]
NoDefinition == [name |-> None, data_scope |-> None, fn |-> None]
NoValue ==
    [type |-> None, name |-> None, status |-> None, info |-> None,
     details |-> EmptyDict]
NoCall == [data |-> NoData, definition |-> NoDefinition, scope_item |-> None]
NotReturned == [kind |-> "pending", value |-> NoValue, exc |-> None, msg |-> None]

AtomicIdle ==
    /\ atomic_call = NoCall
    /\ atomic_return = NotReturned

NoDataset == [data_vars |-> <<>>, coords |-> <<>>, sizes |-> <<>>, nan_vars |-> {}]
NoSummary ==
    [checks_run |-> 0, passed |-> 0, skipped |-> 0, failed |-> 0,
     overall_status |-> None]

SuiteIdle ==
    /\ suite_checks = <<>>
    /\ dataset = NoDataset
    /\ cs_pc = "idle"
    /\ cs_scope = 0
    /\ cs_target = 0
    /\ cs_def = 0
    /\ results = <<>>
    /\ variable_results = EmptyDict
    /\ scope_hierarchy = EmptyDict
    /\ hierarchy = EmptyDict
    /\ summary = NoSummary
    /\ calls = <<>>

NoReport == [has_list |-> FALSE, checks |-> <<>>, resolved |-> None, detail |-> None]
NoSuiteReport ==
    [checks_enabled |-> <<>>, checks |-> <<>>, groups |-> EmptyDict,
     check_summary |-> <<>>, reports |-> EmptyDict,
     summary |-> [checks_run |-> 0, failing_checks |-> 0, warnings_or_skips |-> 0,
                  overall_status |-> None, overall_ok |-> FALSE]]
NoResult == [kind |-> "pending", report |-> NoSuiteReport, exc |-> None, msg |-> None]
NoLookup ==
    [kind |-> "pending", check |-> [key |-> None, owner |-> None],
     exc |-> None, msg |-> None]

EngineIdle ==
    /\ registry = <<>>
    /\ registrations = 0
    /\ rs_pc = "idle"
    /\ rs_enabled = <<>>
    /\ rs_runs = EmptyDict
    /\ rs_result = NoResult
    /\ invoked = <<>>
    /\ gc_key = None
    /\ gc_result = NoLookup

FlattenIdle ==
    /\ fl_key = None
    /\ fl_report = NoReport
    /\ fl_checks = <<>>
    /\ fl_pc = "idle"

NoCallYet ==
    [op |-> None, names |-> <<>>, kind |-> "pending", value |-> <<>>,
     listed |-> <<>>, exc |-> None, msg |-> None]
RegistryIdle ==
    /\ cr_checks = <<>>
    /\ cr_first = EmptyDict
    /\ cr_last = NoCallYet

RangesIdle ==
    /\ ir_indices = <<>>
    /\ ir_ranges = <<>>
    /\ ir_pc = "idle"

DetectorIdle ==
    /\ dt_check = None
    /\ dt_data = EmptyDict
    /\ dt_report = EmptyDict
    /\ dt_pc = "idle"

----------------------------------------------------------------------------
(* Bounds of the model *)

\* longest list of leaf statuses handed to status_from_leaf_statuses
MaxLeaf == 3

\* largest number of definitions in a CheckSuite
MaxChecks == 2

\* largest number of keys in a checks_enabled map
MaxKeys == 3

\* largest number of register_check calls by third parties
MaxRegistrations == 1

\* longest "checks" list of a report handed to _flatten_atomic_checks
MaxItems == 2

----------------------------------------------------------------------------
(* Python string primitives used by the status functions *)

\* str.startswith(prefix)
StartsWith(s, prefix) ==
    /\ Len(s) >= Len(prefix)
    /\ SubSeq(s, 1, Len(prefix)) = prefix

\* `sub in s` on strings
Contains(s, sub) ==
    \E i \in 1..(Len(s) - Len(sub) + 1) : SubSeq(s, i, i + Len(sub) - 1) = sub

\* str.strip(): leading and trailing blanks removed
RECURSIVE StripLeft(_)
StripLeft(s) ==
    IF Len(s) > 0 /\ SubSeq(s, 1, 1) = " " THEN StripLeft(SubSeq(s, 2, Len(s))) ELSE s
RECURSIVE StripRight(_)
StripRight(s) ==
    IF Len(s) > 0 /\ SubSeq(s, Len(s), Len(s)) = " "
    THEN StripRight(SubSeq(s, 1, Len(s) - 1))
    ELSE s
Strip(s) == StripRight(StripLeft(s))

\* str.lower()
UpperCase == "ABCDEFGHIJKLMNOPQRSTUVWXYZ"
LowerCase == "abcdefghijklmnopqrstuvwxyz"
UpperChars == {SubSeq(UpperCase, i, i) : i \in 1..Len(UpperCase)}
LowerOf ==
    [c \in UpperChars |->
        LET i == CHOOSE i \in 1..Len(UpperCase) : SubSeq(UpperCase, i, i) = c
        IN SubSeq(LowerCase, i, i)]
LowerChar(c) == IF c \in UpperChars THEN LowerOf[c] ELSE c
RECURSIVE Lower(_)
Lower(s) ==
    IF Len(s) = 0 THEN s
    ELSE LowerChar(SubSeq(s, 1, 1)) \o Lower(SubSeq(s, 2, Len(s)))

\* any(p(x) for x in xs) and all(p(x) for x in xs) over a list
AnyOf(xs, P(_)) == \E i \in 1..Len(xs) : P(xs[i])
AllIn(xs, P(_)) == \A i \in 1..Len(xs) : P(xs[i])

\* all lists over S of length at most n
SeqUpTo(S, n) == UNION {[1..k -> S] : k \in 0..n}

----------------------------------------------------------------------------
(* models.py: AtomicCheckResult; suite.py: CheckDefinition, CallableCheck *)

\* a Python dict as a function on its keys; {**d, k: v}
DictSet(d, k, v) == [x \in DOMAIN d \cup {k} |-> IF x = k THEN v ELSE d[x]]
HasKey(d, k) == k \in DOMAIN d

\* models.py CheckStatus, by value
AtomicStatus == {"skipped", "passed", "failed"}

\* suite.py DataScope
DataScopes == {"data_vars", "dims", "coords"}

AtomicCheckResult(name, status, info, details) ==
    [type |-> "AtomicCheckResult", name |-> name, status |-> status,
     info |-> info, details |-> details]

skipped_result(name, info, details) == AtomicCheckResult(name, "skipped", info, details)
passed_result(name, info, details) == AtomicCheckResult(name, "passed", info, details)
failed_result(name, info, details) == AtomicCheckResult(name, "failed", info, details)

\* a value a check returned that is no AtomicCheckResult
OtherValue(typename) ==
    [type |-> typename, name |-> None, status |-> None, info |-> None,
     details |-> EmptyDict]

\* how a call ends: it returns a value, or an exception leaves it
Returned(value) == [kind |-> "return", value |-> value, exc |-> None, msg |-> None]
Raised(exc, msg) == [kind |-> "raise", value |-> NoValue, exc |-> exc, msg |-> msg]

\* the exception classes a check's code raises; all derive from Exception
ExceptionClasses == {"RuntimeError", "ValueError", "KeyError"}
IsException(exc) == exc \in ExceptionClasses

\* the check functions (fn) handed to CallableCheck: the ones of the tests and
\* the ways a third-party check misbehaves.  data is the DataArray it is given.
CheckFns ==
    {"pass_check", "skip_check", "no_nan_check", "exploding_check",
     "bad_type_check", "tagged_check"}

CallFn(fn, data) ==
    CASE fn = "pass_check" ->
           Returned(passed_result("demo.pass", "ok", EmptyDict))
      [] fn = "skip_check" ->
           Returned(skipped_result("demo.skip", "n/a", EmptyDict))
      [] fn = "no_nan_check" ->
           IF data.has_nan
           THEN Returned(failed_result("demo.no_nan",
                                       data.name \o " contains NaN values.", EmptyDict))
           ELSE Returned(passed_result("demo.no_nan",
                                       data.name \o " has no NaN values.", EmptyDict))
      [] fn = "exploding_check" -> Raised("RuntimeError", "boom")
      [] fn = "bad_type_check" -> Returned(OtherValue("dict"))
      [] fn = "tagged_check" ->
           Returned(passed_result("demo.tagged", "ok",
                                  [scope_item |-> "elsewhere", count |-> "2"]))

\* suite.py CallableCheck(name, data_scope, plugin, fn); fn may be None
CallableCheck(name, data_scope, fn) ==
    [name |-> name, data_scope |-> data_scope, fn |-> fn]

\* CallableCheck.run
DefinitionRun(definition, data) ==
    IF definition.fn = None
    THEN Raised("ValueError", "CallableCheck requires a callable 'fn'.")
    ELSE CallFn(definition.fn, data)

\* the scope_item / data_scope tags added when scope_item is not None
WithScope(details, definition, scope_item) ==
    IF scope_item # None
    THEN DictSet(DictSet(details, "scope_item", scope_item),
                 "data_scope", definition.data_scope)
    ELSE details

\* run_atomic_check without the try/except: the exception leaves the call
run_atomic_check_unguarded(data, definition, scope_item) ==
    LET out == DefinitionRun(definition, data) IN
    IF out.kind = "raise" THEN out ELSE Returned(out.value)

\* run_atomic_check returning the check's outcome under the name it reported
run_atomic_check_trusting_name(data, definition, scope_item) ==
    LET out == DefinitionRun(definition, data) IN
    IF out.kind = "raise"
    THEN Returned(failed_result(
             definition.name,
             "Check raised " \o out.exc \o ": " \o out.msg,
             WithScope([exception_type |-> out.exc], definition, scope_item)))
    ELSE IF out.value.type # "AtomicCheckResult"
    THEN Returned(failed_result(
             definition.name,
             "Check returned an invalid result type.",
             WithScope([expected |-> "AtomicCheckResult", actual |-> out.value.type],
                       definition, scope_item)))
    ELSE Returned(out.value)

\* suite.py run_atomic_check(data, definition, scope_item=...)
run_atomic_check(data, definition, scope_item) ==
    LET out == DefinitionRun(definition, data) IN
    IF out.kind = "raise" /\ IsException(out.exc)
    THEN Returned(failed_result(
             definition.name,
             "Check raised " \o out.exc \o ": " \o out.msg,
             WithScope([exception_type |-> out.exc], definition, scope_item)))
    ELSE IF out.kind = "raise" THEN out
    ELSE IF out.value.type # "AtomicCheckResult"
    THEN Returned(failed_result(
             definition.name,
             "Check returned an invalid result type.",
             WithScope([expected |-> "AtomicCheckResult", actual |-> out.value.type],
                       definition, scope_item)))
    ELSE
        LET result == out.value
            tagged ==
                IF scope_item # None /\ ~HasKey(result.details, "scope_item")
                THEN AtomicCheckResult(
                         result.name, result.status, result.info,
                         DictSet(DictSet(result.details, "data_scope",
                                         definition.data_scope),
                                 "scope_item", scope_item))
                ELSE result
        IN IF tagged.name # definition.name
           THEN Returned(AtomicCheckResult(
                    definition.name, tagged.status, tagged.info,
                    DictSet(tagged.details, "reported_name", tagged.name)))
           ELSE Returned(tagged)

\* the definitions, data and scope items that run_atomic_check is called with
DefinitionNames == {"demo.pass", "demo.no_nan", "demo.explode"}
Definitions ==
    {CallableCheck(n, s, f) :
        n \in DefinitionNames, s \in DataScopes, f \in CheckFns \cup {None}}
VariableNames == {"temp", "salt"}
DataArrays == [name : VariableNames, has_nan : BOOLEAN]
ScopeItems == VariableNames \cup {None}

InitAtomic ==
    /\ AtomicIdle
    /\ LeafIdle
    /\ SuiteIdle
    /\ EngineIdle
    /\ FlattenIdle
    /\ RegistryIdle
    /\ RangesIdle
    /\ DetectorIdle

\* one call of run_atomic_check from a caller of the library
CallRunAtomicCheck ==
    /\ atomic_return = NotReturned
    /\ \E data \in DataArrays, definition \in Definitions, scope_item \in ScopeItems :
        /\ atomic_call' = [data |-> data, definition |-> definition,
                           scope_item |-> scope_item]
        /\ atomic_return' = run_atomic_check(data, definition, scope_item)
        /\ UNCHANGED <<leafVars, suiteVars, engineVars, flattenVars, registryVars, rangeVars, detectorVars>>

NextAtomic == CallRunAtomicCheck

SpecAtomic == InitAtomic /\ [][NextAtomic]_vars

----------------------------------------------------------------------------
(* Claims about run_atomic_check *)

\* the last call ran a check that raised
AtomicCheckRaised ==
    /\ atomic_return # NotReturned
    /\ DefinitionRun(atomic_call.definition, atomic_call.data).kind = "raise"

\* C1: when the definition's run raises, run_atomic_check does not raise; it
\* returns an outcome with status failed, the definition's name, and
\* details.exception_type equal to the type name of the exception.
C1_ExceptionBecomesFailedOutcome ==
    AtomicCheckRaised =>
        /\ atomic_return.kind = "return"
        /\ atomic_return.value.type = "AtomicCheckResult"
        /\ atomic_return.value.status = "failed"
        /\ atomic_return.value.name = atomic_call.definition.name
        /\ HasKey(atomic_return.value.details, "exception_type")
        /\ atomic_return.value.details.exception_type =
               DefinitionRun(atomic_call.definition, atomic_call.data).exc

\* C1 witness: the exploding check of the tests was run and reported as failed
C1_Witness ==
    /\ atomic_return # NotReturned
    /\ atomic_call.definition.fn = "exploding_check"
    /\ atomic_call.definition.name = "demo.explode"
    /\ atomic_return.kind = "return"
    /\ atomic_return.value.status = "failed"
    /\ atomic_return.value.details.exception_type = "RuntimeError"

\* what the check of the last call returned or raised
AtomicCheckOutcome == DefinitionRun(atomic_call.definition, atomic_call.data)

\* the last call ran a check that returned an AtomicCheckResult under a name
\* that is not the definition's
AtomicNameMismatch ==
    /\ atomic_return # NotReturned
    /\ AtomicCheckOutcome.kind = "return"
    /\ AtomicCheckOutcome.value.type = "AtomicCheckResult"
    /\ AtomicCheckOutcome.value.name # atomic_call.definition.name

\* C11: every outcome run_atomic_check returns carries the definition's name;
\* when the check returned an outcome under another name, the outcome returned
\* has the status and info the check returned and details.reported_name equal
\* to the name the check reported.
C11_DefinitionNameKept ==
    /\ (atomic_return # NotReturned /\ atomic_return.kind = "return") =>
           atomic_return.value.name = atomic_call.definition.name
    /\ AtomicNameMismatch =>
           /\ atomic_return.kind = "return"
           /\ atomic_return.value.status = AtomicCheckOutcome.value.status
           /\ atomic_return.value.info = AtomicCheckOutcome.value.info
           /\ HasKey(atomic_return.value.details, "reported_name")
           /\ atomic_return.value.details.reported_name =
                  AtomicCheckOutcome.value.name

\* the check registered as demo.pass reported a failure as demo.no_nan
C11_Witness ==
    /\ AtomicNameMismatch
    /\ atomic_call.definition.name = "demo.pass"
    /\ atomic_call.scope_item = "temp"
    /\ atomic_return.value.name = "demo.pass"
    /\ atomic_return.value.status = "failed"
    /\ atomic_return.value.details.reported_name = "demo.no_nan"

----------------------------------------------------------------------------
(* suite.py: CheckSuite.run *)

\* the scopes in the opposite order
ScopeOrder_dims_first == <<"dims", "coords", "data_vars">>

\* `for data_scope in ("data_vars", "coords", "dims")`
ScopeOrder == <<"data_vars", "coords", "dims">>

Contents(seq) == {seq[i] : i \in DOMAIN seq}

\* the DataArray of a variable or coordinate of the dataset
DataOf(ds, name) == [name |-> name, has_nan |-> name \in ds.nan_vars]

\* _scope_targets: the (scope_item, data) pairs of a scope, in dataset order;
\* a dimension without a coordinate gets an index array, which holds no NaN
scope_targets(ds, data_scope) ==
    CASE data_scope = "data_vars" ->
           [i \in DOMAIN ds.data_vars |-> DataOf(ds, ds.data_vars[i])]
      [] data_scope = "coords" ->
           [i \in DOMAIN ds.coords |-> DataOf(ds, ds.coords[i])]
      [] data_scope = "dims" ->
           [i \in DOMAIN ds.sizes |->
               IF ds.sizes[i] \in Contents(ds.coords)
               THEN DataOf(ds, ds.sizes[i])
               ELSE [name |-> ds.sizes[i], has_nan |-> FALSE]]

\* checks_by_scope[data_scope]: the definitions of a scope, in suite order
IsOfScope(definition, data_scope) == definition.data_scope = data_scope
scope_definitions(checks, data_scope) ==
    SelectSeq(checks, LAMBDA d : IsOfScope(d, data_scope))

\* f"{definition.name}[{data_scope}:{scope_item}]"
ScopedName(name, data_scope, scope_item) ==
    name \o "[" \o data_scope \o ":" \o scope_item \o "]"

\* the CallableCheck built for one target; its fn is definition.run, so its
\* run raises and returns what the definition's run does
scoped_definition(definition, data_scope, scope_item) ==
    CallableCheck(ScopedName(definition.name, data_scope, scope_item),
                  data_scope, definition.fn)

\* _empty_scope_targets naming the outcome like the outcome of a target
empty_scope_targets_scoped(definition) ==
    skipped_result(
        ScopedName(definition.name, definition.data_scope, "none"),
        "Check skipped (dataset has no items in '" \o definition.data_scope
            \o "' scope).",
        [reason |-> "no_scope_targets", data_scope |-> definition.data_scope])

\* _empty_scope_targets
empty_scope_targets(definition) ==
    skipped_result(
        definition.name,
        "Check skipped (dataset has no items in '" \o definition.data_scope
            \o "' scope).",
        [reason |-> "no_scope_targets", data_scope |-> definition.data_scope])

\* sum(1 for result in results if result.status == status)
RECURSIVE CountStatus(_, _)
CountStatus(rs, status) ==
    IF rs = <<>> THEN 0
    ELSE (IF Head(rs).status = status THEN 1 ELSE 0) + CountStatus(Tail(rs), status)

\* _summary_from_results ranking passed above failed
summary_from_results_passed_first(rs) ==
    LET passed == CountStatus(rs, "passed")
        skipped == CountStatus(rs, "skipped")
        failed == CountStatus(rs, "failed")
    IN [checks_run |-> Len(rs), passed |-> passed, skipped |-> skipped,
        failed |-> failed,
        overall_status |->
            IF passed > 0 THEN "passed"
            ELSE IF failed > 0 THEN "failed"
            ELSE "skipped"]

\* _summary_from_results
summary_from_results(rs) ==
    LET passed == CountStatus(rs, "passed")
        skipped == CountStatus(rs, "skipped")
        failed == CountStatus(rs, "failed")
    IN [checks_run |-> Len(rs), passed |-> passed, skipped |-> skipped,
        failed |-> failed,
        overall_status |->
            IF failed > 0 THEN "failed"
            ELSE IF passed > 0 THEN "passed"
            ELSE "skipped"]

\* the outcome of one (target, definition) pair: run_atomic_check on the
\* scoped definition
run_scoped_check_untagged(definition, data_scope, data) ==
    run_atomic_check(data, scoped_definition(definition, data_scope, data.name),
                     None).value

\* the pair's outcome when the check's own return value is taken as it is
run_scoped_check_unwrapped(definition, data_scope, data) ==
    LET out == DefinitionRun(definition, data) IN
    IF out.kind = "raise"
    THEN skipped_result(ScopedName(definition.name, data_scope, data.name),
                        "Check raised " \o out.exc, EmptyDict)
    ELSE AtomicCheckResult(ScopedName(definition.name, data_scope, data.name),
                           "passed", "ok", EmptyDict)

run_scoped_check(definition, data_scope, data) ==
    run_atomic_check(data, scoped_definition(definition, data_scope, data.name),
                     data.name).value

\* the definitions a suite is built from and the datasets it is run on
SuiteDefinitions ==
    {CallableCheck("demo.no_nan", "data_vars", "no_nan_check"),
     CallableCheck("demo.pass", "data_vars", "pass_check"),
     CallableCheck("demo.explode", "data_vars", "exploding_check"),
     CallableCheck("demo.tagged", "data_vars", "tagged_check"),
     CallableCheck("demo.no_nan", "coords", "bad_type_check"),
     CallableCheck("demo.skip", "dims", "skip_check")}

\* the orders of the subsets of a set of names: lists without repetition
ListsOf(S) ==
    {q \in SeqUpTo(S, Cardinality(S)) : \A i, j \in DOMAIN q : i # j => q[i] # q[j]}

Datasets ==
    [data_vars : ListsOf(VariableNames),
     coords : {<<>>, <<"time">>},
     sizes : {<<>>, <<"time">>},
     nan_vars : {{}, {"temp"}}]

InitSuite ==
    /\ suite_checks \in SeqUpTo(SuiteDefinitions, MaxChecks)
    /\ dataset \in Datasets
    /\ cs_pc = "idle"
    /\ cs_scope = 0
    /\ cs_target = 0
    /\ cs_def = 0
    /\ results = <<>>
    /\ variable_results = EmptyDict
    /\ scope_hierarchy = EmptyDict
    /\ hierarchy = EmptyDict
    /\ summary = NoSummary
    /\ calls = <<>>
    /\ LeafIdle
    /\ AtomicIdle
    /\ EngineIdle
    /\ FlattenIdle
    /\ RegistryIdle
    /\ RangesIdle
    /\ DetectorIdle

\* CheckSuite.run is entered: results = [], hierarchy = {}
SuiteRunStart ==
    /\ cs_pc = "idle"
    /\ cs_pc' = "scope"
    /\ cs_scope' = 1
    /\ results' = <<>>
    /\ hierarchy' = EmptyDict
    /\ UNCHANGED <<suite_checks, dataset, cs_target, cs_def, variable_results,
                   scope_hierarchy, summary, calls, leafVars, atomicVars, engineVars, flattenVars, registryVars, rangeVars, detectorVars>>

\* `if not scope_definitions: continue`
SuiteSkipScope ==
    /\ cs_pc = "scope"
    /\ cs_scope <= Len(ScopeOrder)
    /\ scope_definitions(suite_checks, ScopeOrder[cs_scope]) = <<>>
    /\ cs_scope' = cs_scope + 1
    /\ UNCHANGED <<suite_checks, dataset, cs_pc, cs_target, cs_def, results,
                   variable_results, scope_hierarchy, hierarchy, summary, calls,
                   leafVars, atomicVars, engineVars, flattenVars, registryVars, rangeVars, detectorVars>>

\* `if not scope_targets:` one skipped outcome per definition of the scope
SuiteEmptyScope ==
    /\ cs_pc = "scope"
    /\ cs_scope <= Len(ScopeOrder)
    /\ LET defs == scope_definitions(suite_checks, ScopeOrder[cs_scope]) IN
        /\ defs # <<>>
        /\ scope_targets(dataset, ScopeOrder[cs_scope]) = <<>>
        /\ results' = results \o [i \in DOMAIN defs |-> empty_scope_targets(defs[i])]
    /\ cs_scope' = cs_scope + 1
    /\ UNCHANGED <<suite_checks, dataset, cs_pc, cs_target, cs_def,
                   variable_results, scope_hierarchy, hierarchy, summary, calls,
                   leafVars, atomicVars, engineVars, flattenVars, registryVars, rangeVars, detectorVars>>

\* the target loop of a scope with definitions and targets is entered
SuiteEnterScope ==
    /\ cs_pc = "scope"
    /\ cs_scope <= Len(ScopeOrder)
    /\ scope_definitions(suite_checks, ScopeOrder[cs_scope]) # <<>>
    /\ scope_targets(dataset, ScopeOrder[cs_scope]) # <<>>
    /\ cs_pc' = "check"
    /\ cs_target' = 1
    /\ cs_def' = 1
    /\ scope_hierarchy' = EmptyDict
    /\ variable_results' = EmptyDict
    /\ UNCHANGED <<suite_checks, dataset, cs_scope, results, hierarchy, summary,
                   calls, leafVars, atomicVars, engineVars, flattenVars, registryVars, rangeVars, detectorVars>>

\* one pass of the inner loop: one definition is run on one target; the end of
\* the definition loop stores variable_results, the end of the target loop
\* stores scope_hierarchy
SuiteRunCheck ==
    /\ cs_pc = "check"
    /\ LET data_scope == ScopeOrder[cs_scope]
           defs == scope_definitions(suite_checks, data_scope)
           targets == scope_targets(dataset, data_scope)
           data == targets[cs_target]
           definition == defs[cs_def]
           result == run_scoped_check(definition, data_scope, data)
           vr == DictSet(variable_results, definition.name, result)
           sh == DictSet(scope_hierarchy, data.name, vr)
       IN
        /\ results' = Append(results, result)
        /\ calls' = Append(calls, <<definition, data.name>>)
        /\ IF cs_def < Len(defs)
           THEN /\ cs_def' = cs_def + 1
                /\ variable_results' = vr
                /\ UNCHANGED <<cs_pc, cs_scope, cs_target, scope_hierarchy, hierarchy>>
           ELSE IF cs_target < Len(targets)
           THEN /\ cs_def' = 1
                /\ cs_target' = cs_target + 1
                /\ variable_results' = EmptyDict
                /\ scope_hierarchy' = sh
                /\ UNCHANGED <<cs_pc, cs_scope, hierarchy>>
           ELSE /\ cs_pc' = "scope"
                /\ cs_scope' = cs_scope + 1
                /\ variable_results' = vr
                /\ scope_hierarchy' = sh
                /\ hierarchy' = DictSet(hierarchy, data_scope, sh)
                /\ UNCHANGED <<cs_target, cs_def>>
    /\ UNCHANGED <<suite_checks, dataset, summary, leafVars, atomicVars, engineVars, flattenVars, registryVars, rangeVars, detectorVars>>

\* after the last scope: summary = _summary_from_results(results); return
SuiteRunReturn ==
    /\ cs_pc = "scope"
    /\ cs_scope > Len(ScopeOrder)
    /\ summary' = summary_from_results(results)
    /\ cs_pc' = "done"
    /\ UNCHANGED <<suite_checks, dataset, cs_scope, cs_target, cs_def, results,
                   variable_results, scope_hierarchy, hierarchy, calls,
                   leafVars, atomicVars, engineVars, flattenVars, registryVars, rangeVars, detectorVars>>

NextSuite ==
    \/ SuiteRunStart
    \/ SuiteSkipScope
    \/ SuiteEmptyScope
    \/ SuiteEnterScope
    \/ SuiteRunCheck
    \/ SuiteRunReturn

SpecSuite == InitSuite /\ [][NextSuite]_vars

----------------------------------------------------------------------------
(* Claims about CheckSuite.run *)

\* the names of the targets of a scope of the dataset
TargetNames(data_scope) ==
    {scope_targets(dataset, data_scope)[i].name :
        i \in DOMAIN scope_targets(dataset, data_scope)}

\* the positions in the report's checks list of the outcomes with a name
OutcomesNamed(name) == {i \in DOMAIN results : results[i].name = name}

\* the number of definitions of the suite with the name and scope of d
Occurrences(d) ==
    Cardinality({k \in DOMAIN suite_checks :
                    /\ suite_checks[k].name = d.name
                    /\ suite_checks[k].data_scope = d.data_scope})

\* for every definition d whose scope has targets, and every target v: there
\* is one outcome named d[scope:v] per occurrence of d, and Tagged holds of it
OneOutcomePerVariable(Tagged(_, _, _)) ==
    \A k \in DOMAIN suite_checks :
        LET d == suite_checks[k] IN
        \A v \in TargetNames(d.data_scope) :
            LET named == OutcomesNamed(ScopedName(d.name, d.data_scope, v)) IN
            /\ Cardinality(named) = Occurrences(d)
            /\ \A i \in named : Tagged(results[i], d, v)
            /\ HasKey(hierarchy, d.data_scope)
            /\ DOMAIN hierarchy[d.data_scope] = TargetNames(d.data_scope)

TaggedWithVariable(result, d, v) ==
    /\ HasKey(result.details, "scope_item")
    /\ result.details.scope_item = v

\* the data of the target named v of a scope
TargetData(data_scope, v) ==
    CHOOSE t \in Contents(scope_targets(dataset, data_scope)) : t.name = v

\* the result the check of d returns for target v carries its own scope_item
SelfTagged(d, v) ==
    LET out == DefinitionRun(d, TargetData(d.data_scope, v)) IN
    /\ out.kind = "return"
    /\ HasKey(out.value.details, "scope_item")

TaggedUnlessSelfTagged(result, d, v) ==
    /\ HasKey(result.details, "scope_item")
    /\ ~SelfTagged(d, v) => result.details.scope_item = v

\* C10 as stated: a check applied to N variables gives N outcomes, one per
\* variable, each named check[scope:variable] with details.scope_item =
\* variable, and the results hierarchy has one entry per variable.
C10_OneTaggedOutcomePerVariable ==
    cs_pc = "done" => OneOutcomePerVariable(TaggedWithVariable)

\* C10 amended: as C10, but details.scope_item = variable is claimed only of
\* checks whose own result carries no scope_item in its details; a scope_item
\* the check put there itself is kept.
C10_OneOutcomePerVariable ==
    cs_pc = "done" => OneOutcomePerVariable(TaggedUnlessSelfTagged)

\* C10 witness: one check ran on two data variables and gave two outcomes of
\* equal status
C10_Witness ==
    /\ cs_pc = "done"
    /\ Len(suite_checks) = 1
    /\ suite_checks[1].fn = "pass_check"
    /\ dataset.data_vars = <<"temp", "salt">>
    /\ Len(results) = 2
    /\ results[1].status = results[2].status
    /\ results[1].details.scope_item = "temp"
    /\ results[2].details.scope_item = "salt"

----------------------------------------------------------------------------
(* core/coverage.py: status_from_leaf_statuses *)

\* the leaf status strings the detectors and third-party reports produce,
\* already stripped and lower-cased by leaf_statuses / the callers
LeafStatusStrings ==
    {"fatal", "fail", "failed", "error", "warn", "warning",
     "skipped", "skipped_no_time", "pass", "unknown"}

\* core/check.py CheckStatus, by value
CheckStatus == {"passed", "skipped", "warn", "error", "fatal"}

IsFatalLeaf(status) == status \in {"fatal"}
IsFailLeaf(status) == status \in {"fail", "failed", "error"}
IsWarnLeaf(status) == status = "warn" \/ Contains(status, "warn")
IsSkipLeaf(status) == StartsWith(status, "skip")

status_from_leaf_statuses_no_skip(sts) ==
    IF sts = <<>> THEN "passed"
    ELSE IF AnyOf(sts, IsFatalLeaf) THEN "fatal"
    ELSE IF AnyOf(sts, IsFailLeaf) THEN "error"
    ELSE IF AnyOf(sts, IsWarnLeaf) THEN "warn"
    ELSE "passed"

status_from_leaf_statuses_warn_first(sts) ==
    IF sts = <<>> THEN "passed"
    ELSE IF AnyOf(sts, IsFatalLeaf) THEN "fatal"
    ELSE IF AnyOf(sts, IsWarnLeaf) THEN "warn"
    ELSE IF AnyOf(sts, IsFailLeaf) THEN "error"
    ELSE IF AllIn(sts, IsSkipLeaf) THEN "skipped"
    ELSE "passed"

status_from_leaf_statuses(sts) ==
    IF sts = <<>> THEN "passed"
    ELSE IF AnyOf(sts, IsFatalLeaf) THEN "fatal"
    ELSE IF AnyOf(sts, IsFailLeaf) THEN "error"
    ELSE IF AnyOf(sts, IsWarnLeaf) THEN "warn"
    ELSE IF AllIn(sts, IsSkipLeaf) THEN "skipped"
    ELSE "passed"

InitLeaf ==
    /\ statuses \in SeqUpTo(LeafStatusStrings, MaxLeaf)
    /\ leaf_status = "pending"
    /\ AtomicIdle
    /\ SuiteIdle
    /\ EngineIdle
    /\ FlattenIdle
    /\ RegistryIdle
    /\ RangesIdle
    /\ DetectorIdle

\* one call of status_from_leaf_statuses(statuses)
CallStatusFromLeafStatuses ==
    /\ leaf_status = "pending"
    /\ leaf_status' = status_from_leaf_statuses(statuses)
    /\ UNCHANGED <<statuses, atomicVars, suiteVars, engineVars, flattenVars, registryVars, rangeVars, detectorVars>>

NextLeaf == CallStatusFromLeafStatuses

SpecLeaf == InitLeaf /\ [][NextLeaf]_vars

----------------------------------------------------------------------------
(* Claims about status_from_leaf_statuses *)

\* the five-valued status domain of the specification, as sets of leaf strings
FatalKind == {"fatal"}
FailKind == {"fail", "failed", "error"}
WarnKind == {"warn", "warning"}
SkipKind == {"skipped", "skipped_no_time"}

Present(kind) == \E i \in 1..Len(statuses) : statuses[i] \in kind
AllOf(kind) == \A i \in 1..Len(statuses) : statuses[i] \in kind

\* rank of a leaf status under fatal > fail > warn > skip > pass
RankSkipAbovePass(s) ==
    IF s \in FatalKind THEN 5
    ELSE IF s \in FailKind THEN 4
    ELSE IF s \in WarnKind THEN 3
    ELSE IF s \in SkipKind THEN 2
    ELSE 1

\* rank of a leaf status under fatal > fail > warn > pass > skip
RankPassAboveSkip(s) ==
    IF s \in FatalKind THEN 5
    ELSE IF s \in FailKind THEN 4
    ELSE IF s \in WarnKind THEN 3
    ELSE IF s \in SkipKind THEN 1
    ELSE 2

\* the CheckStatus that stands for a leaf status
StatusOfLeaf(s) ==
    IF s \in FatalKind THEN "fatal"
    ELSE IF s \in FailKind THEN "error"
    ELSE IF s \in WarnKind THEN "warn"
    ELSE IF s \in SkipKind THEN "skipped"
    ELSE "passed"

\* C3 as stated: for a non-empty list the result is the highest-ranked status
\* present under the strict order fatal > fail > warn > skip > pass.
C3_HighestSkipAbovePass ==
    (leaf_status # "pending" /\ statuses # <<>>) =>
        \E i \in 1..Len(statuses) :
            /\ leaf_status = StatusOfLeaf(statuses[i])
            /\ \A j \in 1..Len(statuses) :
                   RankSkipAbovePass(statuses[j]) <= RankSkipAbovePass(statuses[i])

\* C3 amended: for a non-empty list the result is the highest-ranked status
\* present under the order fatal > fail > warn > pass > skip, so skip is
\* returned only when every status is a skip.
C3_HighestPassAboveSkip ==
    (leaf_status # "pending" /\ statuses # <<>>) =>
        \E i \in 1..Len(statuses) :
            /\ leaf_status = StatusOfLeaf(statuses[i])
            /\ \A j \in 1..Len(statuses) :
                   RankPassAboveSkip(statuses[j]) <= RankPassAboveSkip(statuses[i])

\* C3 witness: a list mixing skip and pass was combined, and gave pass
C3_Witness ==
    /\ leaf_status = "passed"
    /\ Present(SkipKind)
    /\ Present({"pass"})

\* C4: fail for a list with a fail and no fatal, warn for a list with a warn
\* and no fail or fatal, skip for a non-empty all-skip list, pass for the
\* empty list.
C4_LeafCombination ==
    leaf_status # "pending" =>
        /\ (Present(FailKind) /\ ~Present(FatalKind)) => leaf_status = "error"
        /\ (Present(WarnKind) /\ ~Present(FailKind) /\ ~Present(FatalKind))
               => leaf_status = "warn"
        /\ (statuses # <<>> /\ AllOf(SkipKind)) => leaf_status = "skipped"
        /\ statuses = <<>> => leaf_status = "passed"

\* C4 witness: the list [pass, warn, skip] of the specification was combined
C4_Witness ==
    /\ leaf_status = "warn"
    /\ statuses = <<"pass", "warn", "skipped">>

----------------------------------------------------------------------------
(* engine/registry.py: the registry of checks *)

\* engine/defaults.py _DEFAULT_ORDER
DEFAULT_ORDER == <<"compliance", "ocean_cover", "time_cover">>
\* default_check_order answering the keys in the opposite order
default_check_order_reversed == <<"time_cover", "ocean_cover", "compliance">>

\* engine/defaults.py default_check_order
default_check_order == DEFAULT_ORDER

\* a key that only a third party registers
PluginKey == "plugin_check"
EngineKeys == Contents(DEFAULT_ORDER) \cup {PluginKey}

\* the keys of the model in sorted() order
SortedKeys == <<"compliance", "ocean_cover", "plugin_check", "time_cover">>

\* RegisteredCheck(key, run_report, resolve_status, resolve_detail); owner
\* tells whose callbacks these are: "default" (engine/defaults.py) or "plugin"
RegisteredCheck(key, owner) == [key |-> key, owner |-> owner]

RegistryKeys(reg) == {reg[i].key : i \in DOMAIN reg}

\* has_check
has_check(reg, key) == key \in RegistryKeys(reg)

\* register_check: _REGISTRY[check.key] = check
register_check(reg, check) ==
    IF has_check(reg, check.key)
    THEN [i \in DOMAIN reg |-> IF reg[i].key = check.key THEN check ELSE reg[i]]
    ELSE Append(reg, check)

\* _REGISTRY[key], for a registered key
Lookup(reg, key) == reg[CHOOSE i \in DOMAIN reg : reg[i].key = key]

\* ", ".join(keys)
RECURSIVE Join(_)
Join(keys) ==
    IF keys = <<>> THEN ""
    ELSE IF Len(keys) = 1 THEN Head(keys)
    ELSE Head(keys) \o ", " \o Join(Tail(keys))

\* the message of the KeyError that get_check raises for an unknown key
UnknownCheckMessage(reg, key) ==
    "Unknown check '" \o key \o "'. Registered checks: "
        \o Join(SelectSeq(SortedKeys, LAMBDA k : has_check(reg, k))) \o "."

\* the message of get_check listing the keys in the order they were registered
UnknownCheckMessageUnsorted(reg, key) ==
    "Unknown check '" \o key \o "'. Registered checks: "
        \o Join([i \in DOMAIN reg |-> reg[i].key]) \o "."

\* get_check without sorted(): the keys come in the order of the dict
get_check_unsorted(reg, key) ==
    IF has_check(reg, key)
    THEN [kind |-> "returned", check |-> Lookup(reg, key), exc |-> None, msg |-> None]
    ELSE [kind |-> "raised", check |-> NoLookup.check, exc |-> "KeyError",
          msg |-> UnknownCheckMessageUnsorted(reg, key)]

\* engine/registry.py get_check
get_check(reg, key) ==
    IF has_check(reg, key)
    THEN [kind |-> "returned", check |-> Lookup(reg, key), exc |-> None, msg |-> None]
    ELSE [kind |-> "raised", check |-> NoLookup.check, exc |-> "KeyError",
          msg |-> UnknownCheckMessage(reg, key)]

\* register_default_checks
register_default_checks(reg) ==
    IF has_check(reg, "compliance") THEN reg
    ELSE register_check(
             register_check(
                 register_check(reg, RegisteredCheck("compliance", "default")),
                 RegisteredCheck("ocean_cover", "default")),
             RegisteredCheck("time_cover", "default"))

----------------------------------------------------------------------------
(* engine/runner.py: _flatten_atomic_checks and the summaries *)

\* contracts/suite.py SummaryStatus
SummaryStatus == {"pass", "fail", "warn"}

\* one entry of a report's "checks" list: a dict with optional id, name,
\* status, detail and variable (None when the key is absent), or no dict
RawCheck(id, name, status, detail, variable) ==
    [is_dict |-> TRUE, id |-> id, name |-> name, status |-> status,
     detail |-> detail, variable |-> variable]
NotADict ==
    [is_dict |-> FALSE, id |-> None, name |-> None, status |-> None,
     detail |-> None, variable |-> None]

\* a report: its "checks" list when it holds one, and what the registration's
\* resolve_status and resolve_detail callbacks answer for it
Report(has_list, checks, resolved, detail) ==
    [has_list |-> has_list, checks |-> checks, resolved |-> resolved,
     detail |-> detail]

\* registration.resolve_status(report), registration.resolve_detail(report)
resolve_status(registration, report) == report.resolved
resolve_detail(registration, report) == report.detail

\* contracts/suite.py AtomicCheckItem; variable is None when the key is absent
AtomicCheckItem(id, name, group, status, detail, variable) ==
    [id |-> id, name |-> name, group |-> group, status |-> status,
     detail |-> detail, variable |-> variable]

\* x or default: None and the empty string are false
Truthy(x) == x # None /\ x # ""

\* the item built from one dict entry; index counts from 0 as enumerate does
FlattenOne(group_key, index, raw_check) ==
    LET check_id ==
            IF raw_check.id # None THEN raw_check.id
            ELSE group_key \o ".check_" \o ToString(index + 1)
        check_name == IF raw_check.name # None THEN raw_check.name ELSE check_id
        status == IF raw_check.status # None THEN raw_check.status ELSE "unknown"
        detail == IF raw_check.detail # None THEN raw_check.detail ELSE ""
    IN AtomicCheckItem(check_id, check_name, group_key, status, detail,
                       raw_check.variable)

\* the loop over enumerate(checks), from position i on; entries that are no
\* dict are passed over
RECURSIVE FlattenLoop(_, _, _)
FlattenLoop(group_key, checks, i) ==
    IF i > Len(checks) THEN <<>>
    ELSE (IF checks[i].is_dict
          THEN <<FlattenOne(group_key, i - 1, checks[i])>>
          ELSE <<>>)
         \o FlattenLoop(group_key, checks, i + 1)

\* the single outcome that stands for a whole report
WholeReportItem(group_key, report, registration) ==
    AtomicCheckItem(group_key, group_key, group_key,
                    resolve_status(registration, report),
                    resolve_detail(registration, report), None)

\* _flatten_atomic_checks returning the flattened list also when it is empty
flatten_atomic_checks_no_fallback(group_key, report, registration) ==
    IF report.has_list
    THEN FlattenLoop(group_key, report.checks, 1)
    ELSE <<WholeReportItem(group_key, report, registration)>>

\* _flatten_atomic_checks
flatten_atomic_checks(group_key, report, registration) ==
    LET flattened == FlattenLoop(group_key, report.checks, 1) IN
    IF report.has_list /\ flattened # <<>>
    THEN flattened
    ELSE <<WholeReportItem(group_key, report, registration)>>

\* engine/runner.py _status_kind
status_kind(status) ==
    LET normalized == Lower(Strip(status)) IN
    IF normalized \in {"fail", "failed", "error", "fatal", "false"} THEN "fail"
    ELSE IF normalized \in {"warn", "warning"} THEN "warn"
    ELSE IF normalized \in {"skip", "skipped"} \/ StartsWith(normalized, "skip")
    THEN "skip"
    ELSE "pass"

\* _combine_status_kinds
combine_status_kinds(kinds) ==
    IF \E i \in DOMAIN kinds : kinds[i] = "fail" THEN "fail"
    ELSE IF \E i \in DOMAIN kinds : kinds[i] = "warn" THEN "warn"
    ELSE "pass"

\* sum(1 for kind in kinds if kind in wanted)
CountKinds(kinds, wanted) == Cardinality({i \in DOMAIN kinds : kinds[i] \in wanted})

\* _summary_from_atomic_checks counting skips as failures
summary_from_atomic_checks_skip_fails(checks) ==
    LET kinds == [i \in DOMAIN checks |-> status_kind(checks[i].status)]
        overall_status == combine_status_kinds(kinds)
    IN [checks_run |-> Len(checks),
        failing_checks |-> CountKinds(kinds, {"fail", "skip"}),
        warnings_or_skips |-> CountKinds(kinds, {"warn"}),
        overall_status |-> overall_status,
        overall_ok |-> overall_status = "pass"]

\* _summary_from_atomic_checks
summary_from_atomic_checks(checks) ==
    LET kinds == [i \in DOMAIN checks |-> status_kind(checks[i].status)]
        overall_status == combine_status_kinds(kinds)
    IN [checks_run |-> Len(checks),
        failing_checks |-> CountKinds(kinds, {"fail"}),
        warnings_or_skips |-> CountKinds(kinds, {"warn", "skip"}),
        overall_status |-> overall_status,
        overall_ok |-> overall_status = "pass"]

\* _group_summary_from_atomic_checks
group_summary_from_atomic_checks(checks) ==
    LET sm == summary_from_atomic_checks(checks) IN
    [checks_run |-> sm.checks_run,
     failing_checks |-> sm.failing_checks,
     warnings_or_skips |-> sm.warnings_or_skips,
     status |-> sm.overall_status,
     overall_ok |-> sm.overall_ok]

----------------------------------------------------------------------------
(* _flatten_atomic_checks applied to bounded reports *)

\* entries that a report's "checks" list may hold
RawChecks ==
    { RawCheck("time.missing", "Missing slices", "fail", "2 missing", "temp"),
      RawCheck("ocean.edge", None, "pass", None, "salt"),
      RawCheck(None, None, "skipped", None, None),
      RawCheck("", "Monotonic", " Warning", "", None),
      RawCheck(None, "", None, "no status", None),
      NotADict }

\* report["checks"] lists of up to MaxItems entries
CheckLists == SeqUpTo(RawChecks, MaxItems)

\* reports with a "checks" list, and reports without one
FlattenReports ==
    {Report(TRUE, cs, r, "completed") : cs \in CheckLists, r \in SummaryStatus}
        \cup {Report(FALSE, <<>>, r, "variables=2") : r \in SummaryStatus}

FlattenKeys == {"ocean_cover", "time_cover"}

InitFlatten ==
    /\ LeafIdle
    /\ AtomicIdle
    /\ SuiteIdle
    /\ EngineIdle
    /\ RegistryIdle
    /\ RangesIdle
    /\ DetectorIdle
    /\ fl_key \in FlattenKeys
    /\ fl_report \in FlattenReports
    /\ fl_checks = <<>>
    /\ fl_pc = "called"

\* group_checks = _flatten_atomic_checks(group_key=key, report=report, ...)
CallFlattenAtomicChecks ==
    /\ fl_pc = "called"
    /\ fl_checks' = flatten_atomic_checks(fl_key, fl_report,
                                          RegisteredCheck(fl_key, "default"))
    /\ fl_pc' = "returned"
    /\ UNCHANGED <<fl_key, fl_report, leafVars, atomicVars, suiteVars, engineVars,
                   registryVars, rangeVars, detectorVars>>

NextFlatten == CallFlattenAtomicChecks

SpecFlatten == InitFlatten /\ [][NextFlatten]_vars

\* the positions of the dictionary items of a report's checks list, ascending
DictPositions(report) ==
    {i \in DOMAIN report.checks : report.checks[i].is_dict}

\* the position in the checks list of the n-th dictionary item
NthDict(report, n) ==
    CHOOSE i \in DictPositions(report) :
        Cardinality({j \in DictPositions(report) : j <= i}) = n

----------------------------------------------------------------------------
(* engine/runner.py: run_suite_checks *)

\* what registration.run_report(ds, options) does: it returns a report or
\* it raises
ReportReturned(report) ==
    [kind |-> "returned", report |-> report, exc |-> None, msg |-> None]
ReportRaised(exc, msg) ==
    [kind |-> "raised", report |-> NoReport, exc |-> exc, msg |-> msg]

\* checks_enabled: a dict of key to bool, as its entries in insertion order
EnabledKeys(checks_enabled) ==
    {checks_enabled[i].key : i \in {j \in DOMAIN checks_enabled : checks_enabled[j].enabled}}

\* bool(checks_enabled.get(key))
EnabledGet(checks_enabled, key) == key \in EnabledKeys(checks_enabled)

\* f"checks={checks_run} fail={failing_checks} warn_or_skip={warnings_or_skips}"
SummaryDetail(group_summary) ==
    "checks=" \o ToString(group_summary.checks_run)
        \o " fail=" \o ToString(group_summary.failing_checks)
        \o " warn_or_skip=" \o ToString(group_summary.warnings_or_skips)

CheckSummaryItem(key, group_summary) ==
    [check |-> key, status |-> group_summary.status,
     detail |-> SummaryDetail(group_summary)]

NoError == [exc |-> None, msg |-> None]

\* the locals of run_suite_checks before its loop
EmptyRun ==
    [reports |-> EmptyDict, checks |-> <<>>, groups |-> EmptyDict,
     check_summary |-> <<>>, invoked |-> <<>>, error |-> NoError]

\* one pass of the loop body for key
RunOne(reg, checks_enabled, runs, key, acc) ==
    IF ~EnabledGet(checks_enabled, key) THEN acc
    ELSE IF ~has_check(reg, key)
    THEN [acc EXCEPT !.error =
              [exc |-> "KeyError", msg |-> UnknownCheckMessage(reg, key)]]
    ELSE
        LET registration == Lookup(reg, key)
            outcome == runs[key]
            called == [acc EXCEPT !.invoked = Append(acc.invoked, key)]
        IN
        IF outcome.kind = "raised"
        THEN [called EXCEPT !.error = [exc |-> outcome.exc, msg |-> outcome.msg]]
        ELSE
            LET report == outcome.report
                group_checks == flatten_atomic_checks(key, report, registration)
                group_summary == group_summary_from_atomic_checks(group_checks)
            IN [called EXCEPT
                   !.reports = DictSet(acc.reports, key, report),
                   !.checks = acc.checks \o group_checks,
                   !.groups = DictSet(acc.groups, key, group_summary),
                   !.check_summary =
                       Append(acc.check_summary, CheckSummaryItem(key, group_summary))]

\* for key in order: ..., from position i on; an exception leaves the loop
RECURSIVE RunLoop(_, _, _, _, _, _)
RunLoop(reg, checks_enabled, runs, order, i, acc) ==
    IF i > Len(order) \/ acc.error # NoError THEN acc
    ELSE RunLoop(reg, checks_enabled, runs, order, i + 1,
                 RunOne(reg, checks_enabled, runs, order[i], acc))

\* what a call leaves behind: the registry, the keys whose run_report it
\* called, and the report it returned or the exception it raised
CallReturned(reg, acc, checks_enabled) ==
    [registry |-> reg, invoked |-> acc.invoked,
     result |-> [kind |-> "returned",
                 report |-> [checks_enabled |-> checks_enabled,
                             checks |-> acc.checks,
                             groups |-> acc.groups,
                             check_summary |-> acc.check_summary,
                             reports |-> acc.reports,
                             summary |-> summary_from_atomic_checks(acc.checks)],
                 exc |-> None, msg |-> None]]
CallRaised(reg, invoked_keys, exc, msg) ==
    [registry |-> reg, invoked |-> invoked_keys,
     result |-> [kind |-> "raised", report |-> NoSuiteReport,
                 exc |-> exc, msg |-> msg]]

\* the loop of run_suite_checks and its return
RunEnabledChecks(reg, checks_enabled, runs) ==
    LET acc == RunLoop(reg, checks_enabled, runs, default_check_order, 1, EmptyRun) IN
    IF acc.error # NoError
    THEN CallRaised(reg, acc.invoked, acc.error.exc, acc.error.msg)
    ELSE CallReturned(reg, acc, checks_enabled)

\* run_suite_checks without its test that a key is enabled
run_suite_checks_no_guard(reg0, checks_enabled, runs) ==
    RunEnabledChecks(register_default_checks(reg0), checks_enabled, runs)

\* run_suite_checks(ds, checks_enabled=..., options_by_check=...) called with
\* the registry reg0; runs tells what each run_report does on ds
run_suite_checks(reg0, checks_enabled, runs) ==
    LET reg == register_default_checks(reg0) IN
    IF EnabledKeys(checks_enabled) = {}
    THEN CallRaised(reg, <<>>, "ValueError", "At least one check must be enabled.")
    ELSE RunEnabledChecks(reg, checks_enabled, runs)

----------------------------------------------------------------------------
(* The engine: third parties register checks, a caller runs the suite *)

\* the keys under which a third party registers a check
ThirdPartyKeys == {PluginKey, "compliance"}

MapEntries == [key : EngineKeys, enabled : BOOLEAN]

\* the checks_enabled maps of up to MaxKeys keys, in every insertion order
EnabledMaps ==
    {m \in SeqUpTo(MapEntries, MaxKeys) :
        \A i, j \in DOMAIN m : i # j => m[i].key # m[j].key}

\* what run_report may do in the engine runs: raise, return a report without
\* a checks list, return a report with one
EngineOutcomes ==
    { ReportRaised("ValueError", "Data variable 'missing' not found."),
      ReportReturned(Report(FALSE, <<>>, "warn", "variables=2")),
      ReportReturned(Report(TRUE,
          <<RawCheck("time.missing", "Missing slices", "fail", "2 missing", "temp"),
            RawCheck(None, None, "skipped", None, None)>>,
          "fail", "completed")) }

InitEngine ==
    /\ LeafIdle
    /\ AtomicIdle
    /\ SuiteIdle
    /\ FlattenIdle
    /\ RegistryIdle
    /\ RangesIdle
    /\ DetectorIdle
    /\ EngineIdle

\* a third party calls register_check(RegisteredCheck(key=key, ...))
RegisterCheck(key) ==
    /\ rs_pc = "idle"
    /\ registrations < MaxRegistrations
    /\ registry' = register_check(registry, RegisteredCheck(key, "plugin"))
    /\ registrations' = registrations + 1
    /\ UNCHANGED <<rs_pc, rs_enabled, rs_runs, rs_result, invoked, gc_key, gc_result,
                   leafVars, atomicVars, suiteVars, flattenVars, registryVars, rangeVars, detectorVars>>

\* engine.register_default_checks()
RegisterDefaultChecks ==
    /\ rs_pc = "idle"
    /\ registry' = register_default_checks(registry)
    /\ UNCHANGED <<registrations, rs_pc, rs_enabled, rs_runs, rs_result, invoked,
                   gc_key, gc_result,
                   leafVars, atomicVars, suiteVars, flattenVars, registryVars, rangeVars, detectorVars>>

\* a caller calls run_suite_checks with a map of Maps on a dataset on which
\* the run_report of each enabled key behaves as one of Outcomes
RunSuiteChecksOn(Maps, Outcomes) ==
    /\ rs_pc = "idle"
    /\ \E checks_enabled \in Maps :
       \E runs \in [EnabledKeys(checks_enabled) -> Outcomes] :
           LET call == run_suite_checks(registry, checks_enabled, runs) IN
           /\ registry' = call.registry
           /\ rs_enabled' = checks_enabled
           /\ rs_runs' = runs
           /\ rs_result' = call.result
           /\ invoked' = call.invoked
           /\ rs_pc' = call.result.kind
    /\ UNCHANGED <<registrations, gc_key, gc_result,
                   leafVars, atomicVars, suiteVars, flattenVars, registryVars, rangeVars, detectorVars>>

RunSuiteChecks == RunSuiteChecksOn(EnabledMaps, EngineOutcomes)

\* the keys a caller asks get_check for
LookupKeys == EngineKeys \cup {"no_such_check"}

\* a caller calls get_check(key)
GetCheck(key) ==
    /\ rs_pc = "idle"
    /\ gc_key' = key
    /\ gc_result' = get_check(registry, key)
    /\ rs_pc' = "looked_up"
    /\ UNCHANGED <<registry, registrations, rs_enabled, rs_runs, rs_result, invoked,
                   leafVars, atomicVars, suiteVars, flattenVars, registryVars, rangeVars, detectorVars>>

NextEngine ==
    \/ \E key \in ThirdPartyKeys : RegisterCheck(key)
    \/ RegisterDefaultChecks
    \/ RunSuiteChecks
    \/ \E key \in LookupKeys : GetCheck(key)

SpecEngine == InitEngine /\ [][NextEngine]_vars

----------------------------------------------------------------------------
(* Claims about run_suite_checks under SpecEngine *)

\* the call has ended, by a return or by an exception
SuiteCallEnded == rs_pc \in {"returned", "raised"}

\* the order the checks are said to run in
ClaimedOrder == <<"compliance", "ocean_cover", "time_cover">>

\* the enabled keys of the call that are in ClaimedOrder, in that order
EnabledInClaimedOrder ==
    SelectSeq(ClaimedOrder, LAMBDA k : k \in EnabledKeys(rs_enabled))

\* C2 (as stated; the code violates it): when at least one key is enabled and
\* every enabled key is registered, run_suite_checks returns a report; a check
\* of the fixed order whose run raised has a group in the report with at
\* least one failing outcome, and every other enabled check of the fixed
\* order was still invoked and has a group.
C2_ExceptionsBecomeFailingOutcomes ==
    (/\ SuiteCallEnded
     /\ EnabledKeys(rs_enabled) # {}
     /\ EnabledKeys(rs_enabled) \subseteq RegistryKeys(registry))
    => /\ rs_pc = "returned"
       /\ \A k \in EnabledKeys(rs_enabled) \cap Contents(ClaimedOrder) :
              /\ k \in Contents(invoked)
              /\ k \in DOMAIN rs_result.report.groups
              /\ rs_runs[k].kind = "raised" =>
                     rs_result.report.groups[k].failing_checks >= 1

\* C6 (as stated; the code violates it): after a call that returned, every
\* key that is enabled and registered, a third party's key included, was
\* invoked and has an entry in the report's groups and reports.
C6_EveryEnabledRegisteredKeyInvoked ==
    rs_pc = "returned" =>
        \A k \in EnabledKeys(rs_enabled) \cap RegistryKeys(registry) :
            /\ k \in Contents(invoked)
            /\ k \in DOMAIN rs_result.report.groups
            /\ k \in DOMAIN rs_result.report.reports

\* seq is the start of whole
IsPrefix(seq, whole) ==
    Len(seq) <= Len(whole) /\ seq = SubSeq(whole, 1, Len(seq))

\* the list without an entry that repeats the entry before it
RECURSIVE Runs(_)
Runs(seq) ==
    IF Len(seq) <= 1 THEN seq
    ELSE IF seq[1] = seq[2] THEN Runs(Tail(seq))
    ELSE <<seq[1]>> \o Runs(Tail(seq))

\* C7: the checks are invoked in the order compliance, ocean_cover,
\* time_cover whatever the order of the keys in checks_enabled: the keys
\* invoked are the enabled ones of that order up to where the call ended, and
\* in a report returned the groups of the checks list and the entries of
\* check_summary are the enabled keys in that same order.
C7_FixedOrder ==
    /\ SuiteCallEnded => IsPrefix(invoked, EnabledInClaimedOrder)
    /\ rs_pc = "returned" =>
           /\ invoked = EnabledInClaimedOrder
           /\ [i \in DOMAIN rs_result.report.check_summary |->
                  rs_result.report.check_summary[i].check] = EnabledInClaimedOrder
           /\ Runs([i \in DOMAIN rs_result.report.checks |->
                  rs_result.report.checks[i].group]) = EnabledInClaimedOrder

\* a call whose map names time_cover before compliance returned, having
\* invoked compliance before time_cover
C7_Witness ==
    /\ rs_pc = "returned"
    /\ Len(rs_enabled) >= 2
    /\ rs_enabled[1] = [key |-> "time_cover", enabled |-> TRUE]
    /\ rs_enabled[2] = [key |-> "compliance", enabled |-> TRUE]
    /\ invoked = <<"compliance", "time_cover">>
    /\ Len(rs_result.report.checks) = 3

\* C8: a call with no enabled key, the map empty or all its values false,
\* ends with the ValueError "At least one check must be enabled." and no
\* run_report has been invoked.
C8_NoEnabledKeyIsAnError ==
    (SuiteCallEnded /\ EnabledKeys(rs_enabled) = {})
    => /\ rs_pc = "raised"
       /\ rs_result.exc = "ValueError"
       /\ rs_result.msg = "At least one check must be enabled."
       /\ rs_result.report = NoSuiteReport
       /\ invoked = <<>>

\* a call with a map of two keys, both false, has raised
C8_Witness ==
    /\ rs_pc = "raised"
    /\ Len(rs_enabled) = 2
    /\ \A i \in DOMAIN rs_enabled : ~rs_enabled[i].enabled
    /\ has_check(registry, "time_cover")

\* C12 (as stated; the code violates it): no step changes the entry of a key
\* that is already registered, so a register_check with a registered key
\* leaves the registry as it was and get_check for the key still answers the
\* entry of the first registration.
C12_FirstRegistrationWins ==
    [][\A k \in RegistryKeys(registry) :
           /\ has_check(registry', k)
           /\ Lookup(registry', k) = Lookup(registry, k)]_vars

\* the keys of the model in alphabetical order
Alphabetical == <<"compliance", "ocean_cover", "plugin_check", "time_cover">>

\* the registered keys in alphabetical order, joined by ", "
RECURSIVE JoinedSorted(_)
JoinedSorted(keys) ==
    IF keys = <<>> THEN ""
    ELSE IF Len(keys) = 1 THEN keys[1]
    ELSE keys[1] \o ", " \o JoinedSorted(Tail(keys))
RegisteredSorted ==
    JoinedSorted(SelectSeq(Alphabetical, LAMBDA k : k \in RegistryKeys(registry)))

\* engine get_check with a key that is not registered raises a KeyError whose
\* message lists every registered key in sorted order
UnknownKeyListsSortedKeys ==
    (rs_pc = "looked_up" /\ gc_key \notin RegistryKeys(registry)) =>
        /\ gc_result.kind = "raised"
        /\ gc_result.exc = "KeyError"
        /\ gc_result.msg =
               "Unknown check '" \o gc_key \o "'. Registered checks: "
                   \o RegisteredSorted \o "."

----------------------------------------------------------------------------
(* plugins/registry.py: CheckRegistry *)

\* longest list of names handed to get_checks
MaxLookups == 2

\* the names under which checks are registered, and a name nobody registers
CheckNames == {"time.missing_slices", "cf.conventions", "custom.non_negative_lat"}
LookupNames == CheckNames \cup {"no.such_check"}

\* the names of the model in sorted() order
SortedNames ==
    <<"cf.conventions", "custom.non_negative_lat", "no.such_check",
      "time.missing_slices">>

\* the check objects registered and the plugin each comes from
CheckObjects ==
    { [check |-> "builtin_fn", plugin |-> "time_cover"],
      [check |-> "custom_fn", plugin |-> "custom_lat"] }

\* plugins/registry.py RegisteredCheck(name, check, plugin)
RegistryEntry(name, check, plugin) == [name |-> name, check |-> check, plugin |-> plugin]

NamesOf(checks) == {checks[i].name : i \in DOMAIN checks}

\* self._checks[name], for a registered name
EntryOf(checks, name) == checks[CHOOSE i \in DOMAIN checks : checks[i].name = name]

\* sorted(self._checks)
SortedNamesOf(checks) == SelectSeq(SortedNames, LAMBDA n : n \in NamesOf(checks))

\* how a call on the registry ends: the registry it leaves, what it returned
\* (entries in value, names in listed) or the exception it raised
RegistryReturn(checks, op, names, value, listed) ==
    [checks |-> checks,
     result |-> [op |-> op, names |-> names, kind |-> "returned", value |-> value,
                 listed |-> listed, exc |-> None, msg |-> None]]
RegistryRaise(checks, op, names, exc, msg) ==
    [checks |-> checks,
     result |-> [op |-> op, names |-> names, kind |-> "raised", value |-> <<>>,
                 listed |-> <<>>, exc |-> exc, msg |-> msg]]

\* CheckRegistry.register_check replacing the entry of a registered name
cr_register_check_overwriting(checks, name, check, plugin) ==
    RegistryReturn(
        IF name \in NamesOf(checks)
        THEN [i \in DOMAIN checks |->
                 IF checks[i].name = name THEN RegistryEntry(name, check, plugin)
                 ELSE checks[i]]
        ELSE Append(checks, RegistryEntry(name, check, plugin)),
        "register_check", <<name>>, <<>>, <<>>)

\* CheckRegistry.register_check
cr_register_check(checks, name, check, plugin) ==
    IF name \in NamesOf(checks)
    THEN RegistryRaise(checks, "register_check", <<name>>, "ValueError",
                       "Check '" \o name \o "' is already registered.")
    ELSE RegistryReturn(Append(checks, RegistryEntry(name, check, plugin)),
                        "register_check", <<name>>, <<>>, <<>>)

\* CheckRegistry.list_checks
cr_list_checks(checks) ==
    RegistryReturn(checks, "list_checks", <<>>, <<>>, SortedNamesOf(checks))

\* the message of the KeyError of CheckRegistry.get_check
UnknownNameMessage(checks, name) ==
    "Unknown check '" \o name \o "'. Registered checks: "
        \o Join(SortedNamesOf(checks))

\* CheckRegistry.get_check
cr_get_check(checks, name) ==
    IF name \in NamesOf(checks)
    THEN RegistryReturn(checks, "get_check", <<name>>, <<EntryOf(checks, name)>>, <<>>)
    ELSE RegistryRaise(checks, "get_check", <<name>>, "KeyError",
                       UnknownNameMessage(checks, name))

\* CheckRegistry.get_checks: [self.get_check(name) for name in names]
cr_get_checks(checks, names) ==
    IF \E i \in DOMAIN names : names[i] \notin NamesOf(checks)
    THEN LET first == CHOOSE i \in DOMAIN names :
                 /\ names[i] \notin NamesOf(checks)
                 /\ \A j \in 1..(i - 1) : names[j] \in NamesOf(checks)
         IN RegistryRaise(checks, "get_checks", names, "KeyError",
                          UnknownNameMessage(checks, names[first]))
    ELSE RegistryReturn(checks, "get_checks", names,
                        [i \in DOMAIN names |-> EntryOf(checks, names[i])], <<>>)

\* the state a call on the registry leaves; first_name is the name whose
\* first registration the call may be
AfterRegistryCall(call) ==
    /\ cr_checks' = call.checks
    /\ cr_last' = call.result
    /\ cr_first' =
           IF /\ call.result.op = "register_check"
              /\ call.result.kind = "returned"
              /\ call.result.names[1] \notin DOMAIN cr_first
           THEN DictSet(cr_first, call.result.names[1],
                        EntryOf(call.checks, call.result.names[1]))
           ELSE cr_first

\* registry.register_check(name=name, check=check, plugin=plugin)
CrRegisterCheck(name, object) ==
    /\ AfterRegistryCall(cr_register_check(cr_checks, name, object.check, object.plugin))
    /\ UNCHANGED <<leafVars, atomicVars, suiteVars, engineVars, flattenVars, rangeVars, detectorVars>>

\* registry.get_check(name)
CrGetCheck(name) ==
    /\ AfterRegistryCall(cr_get_check(cr_checks, name))
    /\ UNCHANGED <<leafVars, atomicVars, suiteVars, engineVars, flattenVars, rangeVars, detectorVars>>

\* registry.get_checks(names)
CrGetChecks(names) ==
    /\ AfterRegistryCall(cr_get_checks(cr_checks, names))
    /\ UNCHANGED <<leafVars, atomicVars, suiteVars, engineVars, flattenVars, rangeVars, detectorVars>>

\* registry.list_checks()
CrListChecks ==
    /\ AfterRegistryCall(cr_list_checks(cr_checks))
    /\ UNCHANGED <<leafVars, atomicVars, suiteVars, engineVars, flattenVars, rangeVars, detectorVars>>

\* CheckRegistry(): self._checks = {}
InitCheckRegistry ==
    /\ LeafIdle
    /\ AtomicIdle
    /\ SuiteIdle
    /\ EngineIdle
    /\ FlattenIdle
    /\ RegistryIdle
    /\ RangesIdle
    /\ DetectorIdle

NextCheckRegistry ==
    \/ \E name \in CheckNames, object \in CheckObjects : CrRegisterCheck(name, object)
    \/ \E name \in LookupNames : CrGetCheck(name)
    \/ \E names \in SeqUpTo(LookupNames, MaxLookups) : CrGetChecks(names)
    \/ CrListChecks

SpecCheckRegistry == InitCheckRegistry /\ [][NextCheckRegistry]_vars

\* every registered name is one that was registered first with the entry it
\* still has, and no name is held twice
FirstEntriesKept ==
    /\ NamesOf(cr_checks) = DOMAIN cr_first
    /\ \A name \in DOMAIN cr_first : EntryOf(cr_checks, name) = cr_first[name]
    /\ \A i, j \in DOMAIN cr_checks :
           i # j => cr_checks[i].name # cr_checks[j].name

\* a call keeps every name with its entry; a register_check of a registered
\* name raises ValueError and leaves the registry as it was
RegistryOnlyGrows ==
    /\ \A name \in NamesOf(cr_checks) :
           /\ name \in NamesOf(cr_checks')
           /\ EntryOf(cr_checks', name) = EntryOf(cr_checks, name)
    /\ (cr_last'.op = "register_check" /\ cr_last'.names[1] \in NamesOf(cr_checks)) =>
           /\ cr_last'.kind = "raised"
           /\ cr_last'.exc = "ValueError"
           /\ cr_checks' = cr_checks
    /\ cr_last'.op \in {"get_check", "get_checks", "list_checks"} =>
           cr_checks' = cr_checks

\* C14: after any sequence of register_check, get_check, get_checks and
\* list_checks calls, every name that was registered is still registered and
\* maps to the check of its first registration: a register_check with a
\* registered name raises an error and changes nothing, and no call removes
\* a name.
C14_FirstRegistrationKept == []FirstEntriesKept /\ [][RegistryOnlyGrows]_vars

\* a second register_check of a registered name, with another check, raised
\* and the name still maps to the check registered first
C14_Witness ==
    /\ Len(cr_checks) = 2
    /\ cr_last.op = "register_check"
    /\ cr_last.kind = "raised"
    /\ cr_last.msg = "Check 'cf.conventions' is already registered."
    /\ cr_first["cf.conventions"].check = "custom_fn"
    /\ EntryOf(cr_checks, "cf.conventions").check = "custom_fn"

\* the names of a registry joined in sorted order, as the message lists them
KnownNames ==
    JoinedSorted(SelectSeq(
        <<"cf.conventions", "custom.non_negative_lat", "time.missing_slices">>,
        LAMBDA n : n \in NamesOf(cr_checks)))

\* the first name of the last call that is not registered
FirstUnknownName ==
    cr_last.names[CHOOSE i \in DOMAIN cr_last.names :
        /\ cr_last.names[i] \notin NamesOf(cr_checks)
        /\ \A j \in 1..(i - 1) : cr_last.names[j] \in NamesOf(cr_checks)]

\* CheckRegistry.get_check and get_checks with a name that is not registered
\* raise a KeyError whose message lists every registered name in sorted order
UnknownNameListsSortedNames ==
    (/\ cr_last.op \in {"get_check", "get_checks"}
     /\ \E i \in DOMAIN cr_last.names : cr_last.names[i] \notin NamesOf(cr_checks))
    => /\ cr_last.kind = "raised"
       /\ cr_last.exc = "KeyError"
       /\ cr_last.msg =
              "Unknown check '" \o FirstUnknownName \o "'. Registered checks: "
                  \o KnownNames

----------------------------------------------------------------------------
(* Lookups in the two registries: a caller works with the engine registry or
   with a CheckRegistry *)

NextLookups ==
    \/ RegistryIdle /\ \E key \in ThirdPartyKeys : RegisterCheck(key)
    \/ RegistryIdle /\ RegisterDefaultChecks
    \/ RegistryIdle /\ \E key \in LookupKeys : GetCheck(key)
    \/ EngineIdle /\ NextCheckRegistry

SpecLookups == InitEngine /\ [][NextLookups]_vars

\* a lookup leaves its registry as it was
LookupsKeepRegistries ==
    /\ rs_pc' = "looked_up" => registry' = registry
    /\ cr_last'.op \in {"get_check", "get_checks"} => cr_checks' = cr_checks

\* C13: get_check with a key that is not registered raises an unknown-check
\* error (a KeyError) whose message lists every registered key in sorted
\* order, and leaves the registry unchanged, both for the engine registry and
\* for a CheckRegistry after any sequence of registrations.
C13_UnknownKeyListsSortedKeys ==
    /\ [](UnknownKeyListsSortedKeys /\ UnknownNameListsSortedNames)
    /\ [][LookupsKeepRegistries]_vars

\* a key was looked up in an engine registry that holds plugin_check before
\* the three default keys, and the message lists the four keys sorted
C13_Witness ==
    /\ rs_pc = "looked_up"
    /\ gc_key = "no_such_check"
    /\ Len(registry) = 4
    /\ registry[1].key = "plugin_check"
    /\ gc_result.msg =
           "Unknown check 'no_such_check'. Registered checks: "
               \o "compliance, ocean_cover, plugin_check, time_cover."

----------------------------------------------------------------------------
(* core/coverage.py: indices_to_ranges *)

\* longest list of indices handed to indices_to_ranges
MaxIndices == 4

\* largest index in such a list
MaxIndex == 4

\* the list with x put before the first entry greater than x
RECURSIVE Insert(_, _)
Insert(x, ordered) ==
    IF ordered = <<>> THEN <<x>>
    ELSE IF x <= Head(ordered) THEN <<x>> \o ordered
    ELSE <<Head(ordered)>> \o Insert(x, Tail(ordered))

\* sorted(indices)
RECURSIVE Sorted(_)
Sorted(indices) ==
    IF indices = <<>> THEN <<>> ELSE Insert(Head(indices), Sorted(Tail(indices)))

\* for idx in ordered[1:], from position i on, with the ranges appended so
\* far and the open range start..end; the open range is appended at the end
RECURSIVE RangeLoop(_, _, _, _, _)
RangeLoop(ordered, i, ranges, start, end) ==
    IF i > Len(ordered) THEN Append(ranges, <<start, end>>)
    ELSE IF ordered[i] = end + 1
    THEN RangeLoop(ordered, i + 1, ranges, start, ordered[i])
    ELSE RangeLoop(ordered, i + 1, Append(ranges, <<start, end>>),
                   ordered[i], ordered[i])

\* indices_to_ranges walking the list in the order given
indices_to_ranges_unsorted(indices) ==
    IF indices = <<>> THEN <<>>
    ELSE RangeLoop(indices, 2, <<>>, indices[1], indices[1])

\* indices_to_ranges
indices_to_ranges(indices) ==
    IF indices = <<>> THEN <<>>
    ELSE LET ordered == Sorted(indices)
         IN RangeLoop(ordered, 2, <<>>, ordered[1], ordered[1])

\* the lists of indices the function is called with
IndexValues == (0 - 1)..MaxIndex
IndexLists == SeqUpTo(IndexValues, MaxIndices)

InitRanges ==
    /\ LeafIdle
    /\ AtomicIdle
    /\ SuiteIdle
    /\ EngineIdle
    /\ FlattenIdle
    /\ RegistryIdle
    /\ DetectorIdle
    /\ ir_indices \in IndexLists
    /\ ir_ranges = <<>>
    /\ ir_pc = "called"

\* ranges = indices_to_ranges(indices)
CallIndicesToRanges ==
    /\ ir_pc = "called"
    /\ ir_ranges' = indices_to_ranges(ir_indices)
    /\ ir_pc' = "returned"
    /\ UNCHANGED <<ir_indices, leafVars, atomicVars, suiteVars, engineVars,
                   flattenVars, registryVars, detectorVars>>

NextRanges == CallIndicesToRanges

SpecRanges == InitRanges /\ [][NextRanges]_vars

\* every integer from start to end of each range, in list order
RECURSIVE Expansion(_)
Expansion(ranges) ==
    IF ranges = <<>> THEN <<>>
    ELSE [k \in 1..(Head(ranges)[2] - Head(ranges)[1] + 1) |-> Head(ranges)[1] + k - 1]
             \o Expansion(Tail(ranges))

NoRepeats(seq) == \A i, j \in DOMAIN seq : i # j => seq[i] # seq[j]
StrictlyIncreasing(seq) == \A i \in DOMAIN seq : i > 1 => seq[i - 1] < seq[i]

\* C15: for a list without repeated values, the expansion of the ranges
\* returned is the sorted input (strictly increasing, with the values of the
\* input and no others); every range has start <= end, each range starts at
\* least 2 above the end of the one before (sorted, non-overlapping,
\* non-mergeable), and the empty list gives no ranges.
C15_RangeRoundTrip ==
    (ir_pc = "returned" /\ NoRepeats(ir_indices)) =>
        /\ Contents(Expansion(ir_ranges)) = Contents(ir_indices)
        /\ Len(Expansion(ir_ranges)) = Len(ir_indices)
        /\ StrictlyIncreasing(Expansion(ir_ranges))
        /\ \A i \in DOMAIN ir_ranges : ir_ranges[i][1] <= ir_ranges[i][2]
        /\ \A i \in DOMAIN ir_ranges :
               i > 1 => ir_ranges[i][1] >= ir_ranges[i - 1][2] + 2
        /\ ir_indices = <<>> => ir_ranges = <<>>

\* an unsorted list of four values gave two ranges
C15_Witness ==
    /\ ir_pc = "returned"
    /\ ir_indices = <<3, 0, 4, 1>>
    /\ ir_ranges = << <<0, 1>>, <<3, 4>> >>

\* C16 (as stated; the code violates it): for every list, lists with repeated
\* values included, every range returned starts at least 2 above the end of
\* the range before it, so the ranges are strictly increasing and do not
\* overlap.
C16_RangesDisjointWithRepeats ==
    ir_pc = "returned" =>
        /\ \A i \in DOMAIN ir_ranges : ir_ranges[i][1] <= ir_ranges[i][2]
        /\ \A i \in DOMAIN ir_ranges :
               i > 1 => ir_ranges[i][1] >= ir_ranges[i - 1][2] + 2

----------------------------------------------------------------------------
(* checks/ocean.py: MissingLongitudeBandsCheck *)

\* largest number of time steps of a variable
MaxTime == 3

\* largest number of time steps of two variables that are compared
MaxPairTime == 4

\* the positions along the longitude and latitude dimensions, ascending
LonOrder == <<0, 1>>
LatOrder == <<0, 1>>

\* context.lon_values
LonValues == [i \in Contents(LonOrder) |-> IF i = 0 THEN 0 - 180 ELSE 0]

\* a value of the variable: NaN or a number
CellValues == {"nan", "1.0"}

\* the _FillValue entries of a variable that declares none in attrs or encoding
NoFillValues == {}

\* core/coverage.py missing_mask on one value: null, or equal to a _FillValue
\* that attrs or encoding declare
missing_mask(value, fill_values) == value = "nan" \/ value \in fill_values

\* a lat x lon section of the variable
Sections == [Contents(LatOrder) -> [Contents(LonOrder) -> CellValues]]

\* the variable: its sections along the time dimension, or one section when
\* it has no time dimension (time_dim is None)
OceanData(time_dim, sections) == [time_dim |-> time_dim, sections |-> sections]

\* da.isel({time_dim: time_index}), time_index counted from 0
Isel(da, time_index) == da.sections[time_index + 1]

\* ocean.py _missing_lon_indices_for_time: the positions along lon at which the
\* mask holds at every latitude, ascending as np.flatnonzero gives them; the
\* check passes time_index None exactly when time_dim is None
missing_lon_indices_for_time(da, time_index) ==
    LET section == IF da.time_dim = None
                   THEN da.sections[1]
                   ELSE Isel(da, time_index)
    IN SelectSeq(LonOrder,
                 LAMBDA lon : \A lat \in Contents(LatOrder) :
                                 missing_mask(section[lat][lon], NoFillValues))

\* ocean.py _value_ranges_from_indices
value_ranges_from_indices(indices, values) ==
    LET ranges == indices_to_ranges(indices) IN
    [i \in DOMAIN ranges |->
        [start |-> ToString(values[ranges[i][1]]),
         end |-> ToString(values[ranges[i][2]])]]

\* the report of an enabled MissingLongitudeBandsCheck
MissingLongitudeReport(sampled_indices, missing_lon_list) ==
    [enabled |-> TRUE,
     status |-> IF missing_lon_list # <<>> THEN "fail" ELSE "pass",
     sampled_time_indices |-> sampled_indices,
     missing_longitude_count |-> Len(missing_lon_list),
     missing_longitudes |-> [i \in DOMAIN missing_lon_list |-> LonValues[missing_lon_list[i]]],
     missing_longitude_ranges |-> value_ranges_from_indices(missing_lon_list, LonValues)]

\* run_report taking the last time step alone as persistent
missing_longitude_run_report_last_only(enabled, da) ==
    IF ~enabled THEN [enabled |-> FALSE, status |-> "skipped"]
    ELSE IF da.time_dim = None
    THEN MissingLongitudeReport(<<0>>, missing_lon_indices_for_time(da, None))
    ELSE MissingLongitudeReport(
             <<Len(da.sections) - 1>>,
             missing_lon_indices_for_time(da, Len(da.sections) - 1))

\* run_report taking a longitude as persistent only when every time step
\* misses it
missing_longitude_run_report_every_slice(enabled, da) ==
    IF ~enabled THEN [enabled |-> FALSE, status |-> "skipped"]
    ELSE IF da.time_dim = None
    THEN MissingLongitudeReport(<<0>>, missing_lon_indices_for_time(da, None))
    ELSE
        LET time_size == Len(da.sections)
            missing_last == missing_lon_indices_for_time(da, time_size - 1)
        IN MissingLongitudeReport(
               [i \in 1..time_size |-> time_size - i],
               IF \A t \in 0..(time_size - 1) :
                      missing_lon_indices_for_time(da, t) = missing_last
               THEN missing_last
               ELSE <<>>)

\* MissingLongitudeBandsCheck.run_report
missing_longitude_run_report(enabled, da) ==
    IF ~enabled THEN [enabled |-> FALSE, status |-> "skipped"]
    ELSE IF da.time_dim = None
    THEN MissingLongitudeReport(<<0>>, missing_lon_indices_for_time(da, None))
    ELSE
        LET time_size == Len(da.sections)
            last_idx == time_size - 1
            first_idx == 0
            missing_last == missing_lon_indices_for_time(da, last_idx)
            missing_first == missing_lon_indices_for_time(da, first_idx)
            sampled_two ==
                IF first_idx # last_idx THEN <<last_idx, first_idx>> ELSE <<last_idx>>
            middle_idx == time_size \div 2
            accepted == missing_last # <<>> /\ missing_last = missing_first
            sampled_indices ==
                IF accepted /\ time_size > 2 /\ middle_idx \notin Contents(sampled_two)
                THEN Append(sampled_two, middle_idx)
                ELSE sampled_two
            persistent_missing_lon_indices ==
                IF ~accepted THEN <<>>
                ELSE IF time_size > 2
                        /\ missing_lon_indices_for_time(da, middle_idx) # missing_last
                THEN <<>>
                ELSE missing_last
        IN MissingLongitudeReport(sampled_indices, persistent_missing_lon_indices)

\* the variables the check is run on: with a time dimension of 1..MaxTime
\* steps, or without one
OceanVariables ==
    {OceanData("time", sections) :
        sections \in UNION {[1..T -> Sections] : T \in 1..MaxTime}}
      \cup {OceanData(None, <<section>>) : section \in Sections}

\* a check, enabled or not, and the variable it is given; a check that is
\* not enabled does not look at the variable
MissingLongitudeInputs ==
    {[enabled |-> TRUE, da |-> da] : da \in OceanVariables}
      \cup {[enabled |-> FALSE, da |-> OceanData(None, <<section>>)] :
               section \in Sections}

InitMissingLongitude ==
    /\ LeafIdle
    /\ AtomicIdle
    /\ SuiteIdle
    /\ EngineIdle
    /\ FlattenIdle
    /\ RegistryIdle
    /\ RangesIdle
    /\ dt_check = "ocean.missing_longitude_bands"
    /\ dt_data \in MissingLongitudeInputs
    /\ dt_report = EmptyDict
    /\ dt_pc = "called"

\* report = MissingLongitudeBandsCheck(...).run_report(ds)
RunMissingLongitudeBands ==
    /\ dt_pc = "called"
    /\ dt_check = "ocean.missing_longitude_bands"
    /\ dt_report' = missing_longitude_run_report(dt_data.enabled, dt_data.da)
    /\ dt_pc' = "returned"
    /\ UNCHANGED <<dt_check, dt_data, leafVars, atomicVars, suiteVars, engineVars,
                   flattenVars, registryVars, rangeVars>>

NextMissingLongitude == RunMissingLongitudeBands

SpecMissingLongitude == InitMissingLongitude /\ [][NextMissingLongitude]_vars

\* M(t): the longitude positions at which every value of time slice t is missing
M(t) ==
    {lon \in {0, 1} :
        \A lat \in {0, 1} : dt_data.da.sections[t + 1][lat][lon] = "nan"}

\* the number of time steps of the variable
T == Len(dt_data.da.sections)

\* the set the check is to report as persistent
PersistentSet ==
    IF M(T - 1) # {} /\ M(T - 1) = M(0) /\ (T > 2 => M(T - 1) = M(T \div 2))
    THEN M(T - 1)
    ELSE {}

\* C17: for an enabled check on a variable with a time dimension of T >= 1
\* steps, the longitudes reported are those of M(T-1) when M(T-1) is
\* non-empty, equals M(0) and, if T > 2, equals M(T div 2), and none
\* otherwise; status is fail exactly when some are reported and
\* missing_longitude_count is their number.
C17_PersistentMissingLongitudes ==
    (dt_pc = "returned" /\ dt_check = "ocean.missing_longitude_bands"
        /\ dt_data.enabled /\ dt_data.da.time_dim # None) =>
        /\ Contents(dt_report.missing_longitudes) =
               {LonValues[lon] : lon \in PersistentSet}
        /\ Len(dt_report.missing_longitudes) = Cardinality(PersistentSet)
        /\ dt_report.missing_longitude_count = Cardinality(PersistentSet)
        /\ dt_report.status = "fail" <=> PersistentSet # {}
        /\ dt_report.status \in {"fail", "pass"}

\* three time steps whose first and last slices miss longitude 0 everywhere
\* while the middle slice does not: nothing is reported
C17_Witness ==
    /\ dt_pc = "returned"
    /\ dt_check = "ocean.missing_longitude_bands"
    /\ dt_data.enabled
    /\ dt_data.da.time_dim = "time"
    /\ T = 3
    /\ M(0) = {0}
    /\ M(2) = {0}
    /\ M(1) = {}
    /\ dt_report.status = "pass"
    /\ dt_report.missing_longitude_count = 0
    /\ dt_report.sampled_time_indices = <<2, 0, 1>>

----------------------------------------------------------------------------
(* checks/time_cover.py: TimeMonotonicIncreasingCheck, TimeRegularSpacingCheck *)

\* largest number of values of a time coordinate
MaxSteps == 4

\* largest longitude, in whole degrees, handed to _normalize_lon_for_grid
MaxLon == 400

\* a time value: an integer, a float (v counts millionths, so that 1.0 is
\* v = 1000000), or a str held by an object array
IntValue(v) == [kind |-> "int", v |-> v]
FloatValue(v) == [kind |-> "float", v |-> v]
StrValue == [kind |-> "str", v |-> 0]

IntTimes == {IntValue(v) : v \in 0..2}
FloatTimes == {FloatValue(v) : v \in {0, 1000000, 2000000, 2000001}}
ObjectTimes == {IntValue(0), IntValue(1), StrValue}

\* the values of a time coordinate: an int array, a float array or an
\* object array
TimeArrays ==
    SeqUpTo(IntTimes, MaxSteps) \cup SeqUpTo(FloatTimes, MaxSteps)
        \cup SeqUpTo(ObjectTimes, MaxSteps)

\* TimeCheckContext: time_dim, and the values of time_coord; a variable
\* without time dimension has neither
TimeContext(time_dim, values) == [time_dim |-> time_dim, values |-> values]
TimeContexts ==
    {TimeContext("time", values) : values \in TimeArrays}
        \cup {TimeContext(None, <<>>)}

\* time_cover.py _time_values
time_values(context) == IF context.time_dim = None THEN <<>> ELSE context.values

\* left < right raises TypeError between a str and a number
LessRaises(left, right) == (left.kind = "str") # (right.kind = "str")
Less(left, right) == left.kind # "str" /\ left.v < right.v

\* left - right raises TypeError when a str takes part
MinusRaises(left, right) == left.kind = "str" \/ right.kind = "str"
Minus(left, right) == [kind |-> left.kind, v |-> left.v - right.v]

Abs(x) == IF x < 0 THEN 0 - x ELSE x

\* np.isclose(left, right) with rtol=1e-05 and atol=1e-08, on millionths:
\* |left - right| <= atol + rtol * |right|
\* <=> 100000 * |left - right| <= 1000 + |right|, both sides integers
IsClose(left, right) == Abs(left - right) <= (1000 + Abs(right)) \div 100000

\* time_cover.py _intervals_match
intervals_match(left, right) ==
    IF left.kind = "float" \/ right.kind = "float"
    THEN IsClose(left.v, right.v)
    ELSE left = right

\* str(interval)
IntervalLabel(interval) ==
    IF interval.kind = "float" THEN ToString(interval.v) \o "e-06"
    ELSE ToString(interval.v)

\* core/coverage.py range_records, without the labels of the coordinate values
range_records(indices) ==
    LET ranges == indices_to_ranges(indices) IN
    [i \in DOMAIN ranges |->
        [start_index |-> ranges[i][1], end_index |-> ranges[i][2]]]

\* the indices idx of from..(size - 1), counted from 0, for which Hit(idx)
\* holds, ascending
IndicesWhere(from, size, Hit(_)) ==
    SelectSeq([k \in 1..(size - from) |-> from + k - 1], Hit)

MonotonicReport(status, violation_indices) ==
    [enabled |-> TRUE, status |-> status,
     order_violation_count |-> Len(violation_indices),
     order_violation_ranges |-> range_records(violation_indices)]

\* TimeMonotonicIncreasingCheck.run_report; values[idx] of the code is
\* values[idx + 1] here
monotonic_run_report(context) ==
    IF context.time_dim = None THEN MonotonicReport("skipped_no_time", <<>>)
    ELSE
        LET values == time_values(context)
            size == Len(values)
        IN
        IF \E idx \in 1..(size - 1) : LessRaises(values[idx + 1], values[idx])
        THEN MonotonicReport("skipped_uncomparable_time", <<>>)
        ELSE
            LET violation_indices ==
                    IndicesWhere(1, size,
                        LAMBDA idx : Less(values[idx + 1], values[idx]))
            IN MonotonicReport(IF violation_indices # <<>> THEN "fail" ELSE "pass",
                               violation_indices)

SpacingReport(status, irregular_indices, expected_interval) ==
    [enabled |-> TRUE, status |-> status,
     irregular_interval_count |-> Len(irregular_indices),
     irregular_interval_ranges |-> range_records(irregular_indices),
     expected_interval |-> expected_interval]

\* run_report comparing the intervals exactly
spacing_run_report_exact(context) ==
    IF context.time_dim = None THEN SpacingReport("skipped_no_time", <<>>, None)
    ELSE
        LET values == time_values(context)
            size == Len(values)
        IN
        IF size <= 2 THEN SpacingReport("pass", <<>>, None)
        ELSE IF MinusRaises(values[2], values[1])
        THEN SpacingReport("skipped_uncomparable_time", <<>>, None)
        ELSE
            LET expected_interval == Minus(values[2], values[1]) IN
            IF \E idx \in 1..(size - 1) : MinusRaises(values[idx + 1], values[idx])
            THEN SpacingReport("skipped_uncomparable_time", <<>>,
                               IntervalLabel(expected_interval))
            ELSE
                LET irregular_indices ==
                        IndicesWhere(1, size,
                            LAMBDA idx :
                                Minus(values[idx + 1], values[idx]) # expected_interval)
                IN SpacingReport(
                       IF irregular_indices # <<>> THEN "fail" ELSE "pass",
                       irregular_indices, IntervalLabel(expected_interval))

\* TimeRegularSpacingCheck.run_report, without interval_preview
spacing_run_report(context) ==
    IF context.time_dim = None THEN SpacingReport("skipped_no_time", <<>>, None)
    ELSE
        LET values == time_values(context)
            size == Len(values)
        IN
        IF size <= 2 THEN SpacingReport("pass", <<>>, None)
        ELSE IF MinusRaises(values[2], values[1])
        THEN SpacingReport("skipped_uncomparable_time", <<>>, None)
        ELSE
            LET expected_interval == Minus(values[2], values[1]) IN
            IF \E idx \in 1..(size - 1) : MinusRaises(values[idx + 1], values[idx])
            THEN SpacingReport("skipped_uncomparable_time", <<>>,
                               IntervalLabel(expected_interval))
            ELSE
                LET irregular_indices ==
                        IndicesWhere(1, size,
                            LAMBDA idx :
                                ~intervals_match(Minus(values[idx + 1], values[idx]),
                                                 expected_interval))
                IN SpacingReport(
                       IF irregular_indices # <<>> THEN "fail" ELSE "pass",
                       irregular_indices, IntervalLabel(expected_interval))

InitTimeChecks ==
    /\ LeafIdle
    /\ AtomicIdle
    /\ SuiteIdle
    /\ EngineIdle
    /\ FlattenIdle
    /\ RegistryIdle
    /\ RangesIdle
    /\ dt_check = None
    /\ dt_data \in TimeContexts
    /\ dt_report = EmptyDict
    /\ dt_pc = "called"

\* report = TimeMonotonicIncreasingCheck(...).run_report(ds)
RunTimeMonotonicIncreasing ==
    /\ dt_pc = "called"
    /\ dt_check' = "time.monotonic_increasing"
    /\ dt_report' = monotonic_run_report(dt_data)
    /\ dt_pc' = "returned"
    /\ UNCHANGED <<dt_data, leafVars, atomicVars, suiteVars, engineVars,
                   flattenVars, registryVars, rangeVars>>

\* report = TimeRegularSpacingCheck(...).run_report(ds)
RunTimeRegularSpacing ==
    /\ dt_pc = "called"
    /\ dt_check' = "time.regular_spacing"
    /\ dt_report' = spacing_run_report(dt_data)
    /\ dt_pc' = "returned"
    /\ UNCHANGED <<dt_data, leafVars, atomicVars, suiteVars, engineVars,
                   flattenVars, registryVars, rangeVars>>

NextTimeChecks == RunTimeMonotonicIncreasing \/ RunTimeRegularSpacing

SpecTimeChecks == InitTimeChecks /\ [][NextTimeChecks]_vars

MonotonicReturned ==
    dt_pc = "returned" /\ dt_check = "time.monotonic_increasing"

\* every pair of neighbours of the time values can be compared
Comparable(values) ==
    \A idx \in 1..(Len(values) - 1) : ~LessRaises(values[idx + 1], values[idx])

\* the indices i >= 1, counted from 0, whose value is not strictly greater
\* than the value before it
NotStrictlyGreater(values) ==
    {i \in 1..(Len(values) - 1) : ~(values[i + 1].v > values[i].v)}

\* C19: for comparable time values, TimeMonotonicIncreasingCheck counts in
\* order_violation_count every index i >= 1 whose value is not strictly
\* greater than the value at index i - 1, and its status is fail exactly when
\* that count is positive
C19_ViolationWhereNotStrictlyGreater ==
    (MonotonicReturned /\ dt_data.time_dim # None /\ Comparable(dt_data.values))
        => /\ dt_report.order_violation_count
                  = Cardinality(NotStrictlyGreater(dt_data.values))
           /\ (dt_report.status = "fail")
                  <=> (dt_report.order_violation_count > 0)

SpacingReturned == dt_pc = "returned" /\ dt_check = "time.regular_spacing"

\* every pair of neighbours of the time values can be subtracted
Subtractable(values) ==
    \A idx \in 1..(Len(values) - 1) : ~MinusRaises(values[idx + 1], values[idx])

\* the interval values[i] - values[i - 1], i counted from 0
Interval(values, i) == values[i + 1].v - values[i].v

\* the indices i >= 1 whose interval differs from the first interval
DiffersFromFirst(values) ==
    {i \in 1..(Len(values) - 1) : Interval(values, i) # Interval(values, 1)}

\* the indices i >= 1 whose interval differs from the first interval: for
\* float values by more than the tolerance of np.isclose, else at all
DiffersBeyondTolerance(values) ==
    {i \in 1..(Len(values) - 1) :
        IF values[1].kind = "float"
        THEN ~IsClose(Interval(values, i), Interval(values, 1))
        ELSE Interval(values, i) # Interval(values, 1)}

\* the members of a set of indices below MaxSteps, ascending
Ascending(S) == SelectSeq([k \in 1..MaxSteps |-> k], LAMBDA k : k \in S)

\* a series of at most two values passes with count 0 and no expected interval
ShortSeriesPasses ==
    (SpacingReturned /\ dt_data.time_dim # None /\ Len(dt_data.values) <= 2)
        => /\ dt_report.status = "pass"
           /\ dt_report.irregular_interval_count = 0
           /\ dt_report.expected_interval = None

LongSeries ==
    /\ SpacingReturned
    /\ dt_data.time_dim # None
    /\ Len(dt_data.values) > 2
    /\ Subtractable(dt_data.values)

\* C20 as claimed: for more than two time values, irregular_interval_count is
\* the number of indices i >= 1 whose interval values[i] - values[i-1] differs
\* from values[1] - values[0], and the status is fail exactly when it is
\* positive; at most two values pass with count 0 and no expected interval
C20_CountsEveryDifferingInterval ==
    /\ ShortSeriesPasses
    /\ LongSeries
        => /\ dt_report.irregular_interval_count
                  = Cardinality(DiffersFromFirst(dt_data.values))
           /\ (dt_report.status = "fail")
                  <=> (dt_report.irregular_interval_count > 0)

\* C20 amended: for more than two time values that can be subtracted, the
\* expected interval is values[1] - values[0], irregular_interval_count is the
\* number of indices i >= 1 whose interval does not match it (float intervals
\* match within the tolerance of np.isclose, other intervals when equal), and
\* the status is fail exactly when the count is positive; at most two values
\* pass with count 0 and no expected interval
C20_CountsIntervalsBeyondTolerance ==
    /\ ShortSeriesPasses
    /\ LongSeries
        => /\ dt_report.expected_interval
                  = IntervalLabel(Minus(dt_data.values[2], dt_data.values[1]))
           /\ dt_report.irregular_interval_count
                  = Cardinality(DiffersBeyondTolerance(dt_data.values))
           /\ dt_report.irregular_interval_ranges
                  = range_records(Ascending(DiffersBeyondTolerance(dt_data.values)))
           /\ (dt_report.status = "fail")
                  <=> (dt_report.irregular_interval_count > 0)

\* a float interval that differs from the first one within the tolerance was
\* not counted, next to one beyond the tolerance that was
C20_Witness ==
    /\ LongSeries
    /\ DiffersBeyondTolerance(dt_data.values) # {}
    /\ DiffersBeyondTolerance(dt_data.values) # DiffersFromFirst(dt_data.values)
    /\ dt_report.status = "fail"

----------------------------------------------------------------------------
(* checks/ocean.py: LandOceanOffsetCheck *)

ReferencePoint(label, lat, lon) == [label |-> label, lat |-> lat, lon |-> lon]

LAND_REFERENCE_POINTS ==
    <<ReferencePoint("sahara", 23, 13),
      ReferencePoint("australia_interior", 0 - 25, 134),
      ReferencePoint("mongolia", 47, 103),
      ReferencePoint("greenland_interior", 72, 0 - 40),
      ReferencePoint("south_america_interior", 0 - 15, 0 - 60)>>

OCEAN_REFERENCE_POINTS ==
    <<ReferencePoint("equatorial_pacific", 0, 0 - 140),
      ReferencePoint("north_atlantic", 30, 0 - 40),
      ReferencePoint("indian_ocean", 0 - 30, 80),
      ReferencePoint("south_pacific", 0 - 45, 0 - 150),
      ReferencePoint("west_pacific", 10, 160)>>

\* the least and the greatest of values[lo..hi], halving the range
RECURSIVE MinIn(_, _, _)
MinIn(values, lo, hi) ==
    IF lo = hi THEN values[lo]
    ELSE LET mid == (lo + hi) \div 2
             left == MinIn(values, lo, mid)
             right == MinIn(values, mid + 1, hi)
         IN  IF right < left THEN right ELSE left

RECURSIVE MaxIn(_, _, _)
MaxIn(values, lo, hi) ==
    IF lo = hi THEN values[lo]
    ELSE LET mid == (lo + hi) \div 2
             left == MaxIn(values, lo, mid)
             right == MaxIn(values, mid + 1, hi)
         IN  IF right > left THEN right ELSE left

\* np.nanmin, np.nanmax of coordinate values
nanmin(values) == MinIn(values, 1, Len(values))
nanmax(values) == MaxIn(values, 1, Len(values))

\* ocean.py _longitude_convention, on whole degrees
longitude_convention(lon_values) ==
    LET lon_min == nanmin(lon_values)
        lon_max == nanmax(lon_values)
    IN  IF lon_min >= 0 - 180 /\ lon_max <= 180 THEN "-180_180"
        ELSE IF lon_min >= 0 /\ lon_max <= 360 THEN "0_360"
        ELSE "other"

\* _normalize_lon_for_grid taking every recognised convention modulo 360
normalize_lon_for_grid_modulo_only(lon, convention) ==
    IF convention \in {"0_360", "-180_180"} THEN lon % 360 ELSE lon

\* ocean.py _normalize_lon_for_grid
normalize_lon_for_grid(lon, convention) ==
    IF convention = "0_360" THEN lon % 360
    ELSE IF convention = "-180_180" THEN ((lon + 180) % 360) - 180
    ELSE lon

\* _is_global_grid looking at the longitudes alone
is_global_grid_lon_only(lon_values, lat_values) ==
    nanmax(lon_values) - nanmin(lon_values) >= 300

\* ocean.py _is_global_grid
is_global_grid(lon_values, lat_values) ==
    LET lon_span == nanmax(lon_values) - nanmin(lon_values)
        lat_span == nanmax(lat_values) - nanmin(lat_values)
    IN  lon_span >= 300 /\ lat_span >= 120

\* the coordinate values start, start + step, ... of one axis, in degrees
Axis(start, step, count) == [k \in 1..count |-> start + (k - 1) * step]

\* the coordinates _resolve_ocean_check_context resolves, with their convention
Grid(lon_values, lat_values) ==
    [lon_values |-> lon_values, lat_values |-> lat_values,
     lon_convention |-> longitude_convention(lon_values)]

\* a global 9 degree grid with longitudes in -180..180
CoarseGrid == Grid(Axis(0 - 180, 9, 40), Axis(0 - 90, 9, 21))
\* a global 1 degree grid with longitudes in -180..180
OneDegreeGrid == Grid(Axis(0 - 180, 1, 360), Axis(0 - 90, 1, 181))
\* a global 3 degree grid with longitudes in 0..360
ThreeDegreeGrid == Grid(Axis(0, 3, 120), Axis(0 - 90, 3, 61))
\* a global 9 degree grid whose longitudes start at -200
OffsetGrid == Grid(Axis(0 - 200, 9, 40), Axis(0 - 90, 9, 21))
\* a 12 degree grid whose spans are exactly 300 and 120 degrees
ThresholdGrid == Grid(Axis(0 - 147, 12, 26), Axis(0 - 61, 12, 11))
\* a regional 3 degree grid
RegionalGrid == Grid(Axis(0, 3, 21), Axis(0 - 30, 3, 21))
\* a 3 degree grid over all latitudes whose longitudes span 297 degrees
NarrowLonGrid == Grid(Axis(0, 3, 100), Axis(0 - 90, 3, 61))
\* a 3 degree grid over all longitudes whose latitudes span 117 degrees
NarrowLatGrid == Grid(Axis(0, 3, 120), Axis(0 - 57, 3, 40))

GlobalGrids == {CoarseGrid, OneDegreeGrid, ThreeDegreeGrid, OffsetGrid, ThresholdGrid}
RegionalGrids == {RegionalGrid, NarrowLonGrid, NarrowLatGrid}

\* a lat x lon array of the variable: the cells <<lat index, lon index>> that
\* hold NaN before the values are rolled by `roll` cells along lon, the
\* coordinates staying as they are; every other cell holds a number
Field(missing, roll) == [missing |-> missing, roll |-> roll]

\* the value of the array at the cell <<i, j>>
CellValue(field, lon_count, i, j) ==
    IF <<i, ((j - 1 - field.roll) % lon_count) + 1>> \in field.missing
    THEN "nan" ELSE "1.0"

\* the variable: its arrays along the time dimension, or one array when it has
\* no time dimension
GridData(time_dim, slices) == [time_dim |-> time_dim, slices |-> slices]

\* OceanCheckContext
OceanContext(da, grid) ==
    [da |-> da, time_dim |-> da.time_dim,
     lon_values |-> grid.lon_values, lat_values |-> grid.lat_values,
     lon_convention |-> grid.lon_convention]

\* the position of the coordinate of values[lo..hi] nearest to target, halving
\* the range; of two coordinates equally near, the later one
RECURSIVE NearestIn(_, _, _, _)
NearestIn(values, target, lo, hi) ==
    IF lo = hi THEN lo
    ELSE LET mid == (lo + hi) \div 2
             left == NearestIn(values, target, lo, mid)
             right == NearestIn(values, target, mid + 1, hi)
         IN  IF Abs(values[right] - target) <= Abs(values[left] - target)
             THEN right ELSE left

\* the position sel(..., method="nearest") selects along one axis
NearestIndex(values, target) == NearestIn(values, target, 1, Len(values))

\* section = da.isel({time_dim: 0}), the first time slice
first_time_slice(da) == da.slices[1]

\* section = da if time_dim is None else da.isel({time_dim: -1})
last_time_slice(da) ==
    IF da.time_dim = None THEN da.slices[1] ELSE da.slices[Len(da.slices)]

\* one pass of the loop of check_points: the selected cell of a reference
\* point, what was observed there, and the record of the mismatch
CheckedPoint(context, point, expected_missing) ==
    LET section == last_time_slice(context.da)
        target_lon == normalize_lon_for_grid(point.lon, context.lon_convention)
        i == NearestIndex(context.lat_values, point.lat)
        j == NearestIndex(context.lon_values, target_lon)
        observed_missing ==
            missing_mask(CellValue(section, Len(context.lon_values), i, j),
                         NoFillValues)
    IN  [point |-> point.label,
         requested_lat |-> point.lat,
         requested_lon |-> target_lon,
         actual_lat |-> context.lat_values[i],
         actual_lon |-> context.lon_values[j],
         expected_missing |-> expected_missing,
         observed_missing |-> observed_missing]

\* check_points of LandOceanOffsetCheck.run_report
check_points(context, points, expected_missing) ==
    SelectSeq([k \in DOMAIN points |->
                  CheckedPoint(context, points[k], expected_missing)],
              LAMBDA checked : checked.observed_missing # checked.expected_missing)

\* LandOceanOffsetCheck.run_report
land_ocean_run_report(enabled, context) ==
    IF ~enabled THEN [enabled |-> FALSE, status |-> "skipped"]
    ELSE IF ~is_global_grid(context.lon_values, context.lat_values)
    THEN [enabled |-> TRUE, status |-> "skipped_non_global",
          mismatch_count |-> 0,
          land_points_checked |-> 0, ocean_points_checked |-> 0,
          land_mismatches |-> <<>>, ocean_mismatches |-> <<>>]
    ELSE
        LET land_mismatches == check_points(context, LAND_REFERENCE_POINTS, TRUE)
            ocean_mismatches == check_points(context, OCEAN_REFERENCE_POINTS, FALSE)
            mismatch_count == Len(land_mismatches) + Len(ocean_mismatches)
        IN  [enabled |-> TRUE,
             status |-> IF mismatch_count # 0 THEN "fail" ELSE "pass",
             mismatch_count |-> mismatch_count,
             land_points_checked |-> Len(LAND_REFERENCE_POINTS),
             ocean_points_checked |-> Len(OCEAN_REFERENCE_POINTS),
             land_mismatches |-> land_mismatches,
             ocean_mismatches |-> ocean_mismatches]

\* the cell sel(..., method="nearest") selects for a reference point
RefCell(grid, point) ==
    <<NearestIndex(grid.lat_values, point.lat),
      NearestIndex(grid.lon_values,
                   normalize_lon_for_grid(point.lon, grid.lon_convention))>>

LandCells(grid) ==
    {RefCell(grid, LAND_REFERENCE_POINTS[k]) : k \in DOMAIN LAND_REFERENCE_POINTS}
OceanCells(grid) ==
    {RefCell(grid, OCEAN_REFERENCE_POINTS[k]) : k \in DOMAIN OCEAN_REFERENCE_POINTS}

\* half of the cells along lon: 180 degrees on a global grid
HalfTurn(grid) == Len(grid.lon_values) \div 2

\* the cell 180 degrees of longitude away
Opposite(grid, cell) ==
    <<cell[1], ((cell[2] - 1 + HalfTurn(grid)) % Len(grid.lon_values)) + 1>>

OppositeCells(grid) == {Opposite(grid, cell) : cell \in LandCells(grid) \cup OceanCells(grid)}

\* arrays with any pattern of NaN at the cells of the reference points
ObservedFields(grid) ==
    {Field(missing, 0) : missing \in SUBSET (LandCells(grid) \cup OceanCells(grid))}

\* arrays with NaN at the land cells, numbers at the ocean cells and any
\* pattern of NaN half a turn away from them, as they are and rolled by 180
\* degrees along lon
RolledFields(grid) ==
    {Field(LandCells(grid) \cup missing, roll) :
        missing \in SUBSET OppositeCells(grid), roll \in {0, HalfTurn(grid)}}

\* an array without NaN
AllPresent == Field({}, 0)

\* a few arrays: without NaN, NaN at the land cells, NaN at the ocean cells,
\* NaN at the land cells and half a turn away from the ocean cells; each as it
\* is and rolled by 180 degrees along lon
SampleFields(grid) ==
    {Field(missing, roll) :
        missing \in {{}, LandCells(grid), OceanCells(grid),
                     LandCells(grid)
                         \cup {Opposite(grid, cell) : cell \in OceanCells(grid)}},
        roll \in {0, HalfTurn(grid)}}

\* variables without time dimension and variables with two time slices
GridVariables(fields, others) ==
    {GridData(None, <<field>>) : field \in fields}
        \cup {GridData("time", <<other, field>>) : other \in others, field \in fields}

LandOceanInput(enabled, grid, da) == [enabled |-> enabled, grid |-> grid, da |-> da]

LandOceanInputs ==
    {LandOceanInput(TRUE, CoarseGrid, da) :
        da \in GridVariables(ObservedFields(CoarseGrid), {AllPresent})
                   \cup GridVariables(RolledFields(CoarseGrid), {})}
        \cup UNION {{LandOceanInput(TRUE, grid, da) :
                        da \in GridVariables(SampleFields(grid), SampleFields(grid))} :
                    grid \in GlobalGrids}
        \cup {LandOceanInput(enabled, grid, GridData(None, <<field>>)) :
                 enabled \in BOOLEAN, grid \in RegionalGrids,
                 field \in {AllPresent, Field({<<1, 1>>}, 0)}}
        \cup UNION {{LandOceanInput(TRUE, grid, da) :
                        da \in GridVariables(SampleFields(grid), {AllPresent})} :
                    grid \in RegionalGrids}
        \cup {LandOceanInput(FALSE, CoarseGrid, GridData(None, <<AllPresent>>))}

InitLandOcean ==
    /\ LeafIdle
    /\ AtomicIdle
    /\ SuiteIdle
    /\ EngineIdle
    /\ FlattenIdle
    /\ RegistryIdle
    /\ RangesIdle
    /\ dt_check = "ocean.land_ocean_offset"
    /\ dt_data \in LandOceanInputs
    /\ dt_report = EmptyDict
    /\ dt_pc = "called"

\* report = LandOceanOffsetCheck(...).run_report(ds)
RunLandOceanOffset ==
    /\ dt_pc = "called"
    /\ dt_check = "ocean.land_ocean_offset"
    /\ dt_report' = land_ocean_run_report(dt_data.enabled,
                                          OceanContext(dt_data.da, dt_data.grid))
    /\ dt_pc' = "returned"
    /\ UNCHANGED <<dt_check, dt_data, leafVars, atomicVars, suiteVars, engineVars,
                   flattenVars, registryVars, rangeVars>>

NextLandOcean == RunLandOceanOffset

SpecLandOcean == InitLandOcean /\ [][NextLandOcean]_vars

LandOceanReturned == dt_pc = "returned" /\ dt_check = "ocean.land_ocean_offset"

\* the enabled check has returned for a variable on a global grid
OnGlobalGrid ==
    LandOceanReturned /\ dt_data.enabled /\ dt_data.grid \in GlobalGrids

\* the array of the last time slice, or the only array
LastSlice == dt_data.da.slices[Len(dt_data.da.slices)]

\* the array holds NaN at the cell <<i, j>>
MissingAt(field, grid, cell) ==
    CellValue(field, Len(grid.lon_values), cell[1], cell[2]) = "nan"

\* the reference point reads as missing: NaN in the last time slice at the cell
\* nearest to it
ObservedMissing(point) == MissingAt(LastSlice, dt_data.grid, RefCell(dt_data.grid, point))

LandPresent ==
    {k \in DOMAIN LAND_REFERENCE_POINTS : ~ObservedMissing(LAND_REFERENCE_POINTS[k])}
OceanMissing ==
    {k \in DOMAIN OCEAN_REFERENCE_POINTS : ObservedMissing(OCEAN_REFERENCE_POINTS[k])}

\* no coordinate of the axis is nearer to the requested one than the actual one
IsNearest(values, actual, requested) ==
    \A k \in DOMAIN values : Abs(actual - requested) <= Abs(values[k] - requested)

ListedMismatches ==
    {dt_report.land_mismatches[k] : k \in DOMAIN dt_report.land_mismatches}
        \cup {dt_report.ocean_mismatches[k] : k \in DOMAIN dt_report.ocean_mismatches}

\* mismatch_count is the number of land points read as present plus the number
\* of ocean points read as missing, the listed mismatches name nearest cells,
\* and the status is fail exactly when the count is positive
CountsMismatches ==
    OnGlobalGrid
        => /\ dt_report.mismatch_count
                  = Cardinality(LandPresent) + Cardinality(OceanMissing)
           /\ Len(dt_report.land_mismatches) = Cardinality(LandPresent)
           /\ Len(dt_report.ocean_mismatches) = Cardinality(OceanMissing)
           /\ \A m \in ListedMismatches :
                  /\ IsNearest(dt_data.grid.lon_values, m.actual_lon, m.requested_lon)
                  /\ IsNearest(dt_data.grid.lat_values, m.actual_lat, m.requested_lat)
           /\ dt_report.status \in {"fail", "pass"}
           /\ (dt_report.status = "fail") <=> (dt_report.mismatch_count > 0)

\* before any roll, the array holds NaN at the cells of the five land points
\* and numbers at the cells of the five ocean points
AlignedBase(field) ==
    /\ LandCells(dt_data.grid) \subseteq field.missing
    /\ OceanCells(dt_data.grid) \cap field.missing = {}

\* correctly aligned data gives mismatch_count 0
AlignedGivesNone ==
    (OnGlobalGrid /\ AlignedBase(LastSlice) /\ LastSlice.roll = 0)
        => dt_report.mismatch_count = 0 /\ dt_report.status = "pass"

ShiftedByHalfTurn ==
    /\ OnGlobalGrid
    /\ AlignedBase(LastSlice)
    /\ LastSlice.roll = HalfTurn(dt_data.grid)

\* C18 as claimed: on a global grid mismatch_count is the number of land
\* reference points observed as present plus the number of ocean reference
\* points observed as missing, by nearest neighbour in the last time slice,
\* the status is fail exactly when it is positive, correctly aligned data gives
\* 0, and aligned data shifted by 180 degrees of longitude gives 10
C18_ShiftedDataGivesTen ==
    /\ CountsMismatches
    /\ AlignedGivesNone
    /\ ShiftedByHalfTurn => dt_report.mismatch_count = 10

\* the land points whose cell 180 degrees away holds a number before the shift,
\* and the ocean points whose cell 180 degrees away holds NaN
LandOverNumbers ==
    {k \in DOMAIN LAND_REFERENCE_POINTS :
        Opposite(dt_data.grid, RefCell(dt_data.grid, LAND_REFERENCE_POINTS[k]))
            \notin LastSlice.missing}
OceanOverNaN ==
    {k \in DOMAIN OCEAN_REFERENCE_POINTS :
        Opposite(dt_data.grid, RefCell(dt_data.grid, OCEAN_REFERENCE_POINTS[k]))
            \in LastSlice.missing}

\* C18 amended: on a global grid mismatch_count is the number of land reference
\* points observed as present plus the number of ocean reference points
\* observed as missing, by nearest neighbour in the last time slice, and the
\* status is fail exactly when it is positive; correctly aligned data gives 0;
\* aligned data shifted by 180 degrees of longitude gives the number of land
\* points that now read a number plus the number of ocean points that now read
\* NaN, which is 10 exactly when the shift puts numbers on all five land points
\* and NaN on all five ocean points
C18_ShiftedDataCountsWhatItReads ==
    /\ CountsMismatches
    /\ AlignedGivesNone
    /\ ShiftedByHalfTurn
        => /\ dt_report.mismatch_count
                  = Cardinality(LandOverNumbers) + Cardinality(OceanOverNaN)
           /\ (dt_report.mismatch_count = 10)
                  <=> /\ LandPresent = DOMAIN LAND_REFERENCE_POINTS
                      /\ OceanMissing = DOMAIN OCEAN_REFERENCE_POINTS

\* on the global 1 degree grid, the last time slice of a variable was shifted
\* by 180 degrees so that all ten points read wrongly, after an aligned slice
C18_Witness ==
    /\ ShiftedByHalfTurn
    /\ dt_data.grid = OneDegreeGrid
    /\ dt_data.da.time_dim = "time"
    /\ dt_data.da.slices[1] = Field(LandCells(dt_data.grid), 0)
    /\ dt_report.mismatch_count = 10
    /\ dt_report.status = "fail"

----------------------------------------------------------------------------
(* checks/time_cover.py: MissingTimeSlicesCheck, TimeCoverCheck *)

\* the _FillValue a variable may declare
FillValue == "-999.0"

\* the values of a variable over its other dimensions at one time index
Slice(first, second) == <<first, second>>

SliceKinds ==
    {Slice("nan", "nan"), Slice(FillValue, FillValue), Slice("nan", FillValue),
     Slice("1.0", "nan"), Slice("1.0", FillValue), Slice("1.0", "1.0")}

\* the variable: its slices along the time dimension (one slice when it has
\* no time dimension) and the _FillValue of attrs and of encoding, or None
TimeData(slices, attrs_fill, encoding_fill) ==
    [slices |-> slices, attrs_fill |-> attrs_fill, encoding_fill |-> encoding_fill]

\* the fill values the loop of missing_mask finds in (da.attrs, da.encoding)
fill_values(da) == {da.attrs_fill, da.encoding_fill} \ {None}

\* TimeCheckContext with its variable: da, time_dim and the values of
\* time_coord
TimeCoverContext(da, time_dim, values) ==
    [da |-> da, time_dim |-> time_dim, values |-> values]

\* the time coordinate 0, 1, ..., size - 1
Arange(size) == [k \in 1..size |-> IntValue(k - 1)]

Fills == {<<None, None>>, <<FillValue, None>>, <<None, FillValue>>}

TimeCoverContexts ==
    {TimeCoverContext(TimeData(slices, fill[1], fill[2]), "time", Arange(Len(slices))) :
        slices \in SeqUpTo(SliceKinds, MaxTime), fill \in Fills}
        \cup {TimeCoverContext(TimeData(<<slice>>, fill[1], fill[2]), None, <<>>) :
                 slice \in SliceKinds, fill \in Fills}

\* the mask of missing_mask(context.da) reduced with all() over the dimensions
\* other than time, at one time index
SliceMissing(da, slice) ==
    \A k \in DOMAIN slice : missing_mask(slice[k], fill_values(da))

MissingSlicesReport(status, missing_time_indices) ==
    [enabled |-> TRUE, status |-> status,
     missing_slice_count |-> Len(missing_time_indices),
     missing_slice_ranges |-> range_records(missing_time_indices)]

\* run_report whose mask is isnull() alone
missing_slices_run_report_null_only(context) ==
    IF context.time_dim = None THEN MissingSlicesReport("skipped_no_time", <<>>)
    ELSE
        LET missing_time_indices ==
                IndicesWhere(0, Len(context.da.slices),
                    LAMBDA t : \A k \in DOMAIN context.da.slices[t + 1] :
                                   context.da.slices[t + 1][k] = "nan")
        IN MissingSlicesReport(IF missing_time_indices # <<>> THEN "fail" ELSE "pass",
                               missing_time_indices)

\* MissingTimeSlicesCheck.run_report
missing_slices_run_report(context) ==
    IF context.time_dim = None THEN MissingSlicesReport("skipped_no_time", <<>>)
    ELSE
        LET missing_time_indices ==
                IndicesWhere(0, Len(context.da.slices),
                    LAMBDA t : SliceMissing(context.da, context.da.slices[t + 1]))
        IN MissingSlicesReport(IF missing_time_indices # <<>> THEN "fail" ELSE "pass",
                               missing_time_indices)

\* engine/suite.py _status_kind
suite_status_kind(status) ==
    LET normalized == Lower(Strip(status)) IN
    IF normalized \in {"fail", "failed", "error", "fatal", "false"} THEN "fail"
    ELSE IF normalized \in {"warn", "warning"} THEN "warn"
    ELSE IF normalized \in {"skip", "skipped"} \/ StartsWith(normalized, "skip")
    THEN "skip"
    ELSE "pass"

\* engine/suite.py _summary_from_checks
summary_from_checks(checks) ==
    LET kinds == [i \in DOMAIN checks |-> suite_status_kind(checks[i].status)]
        failing_checks == CountKinds(kinds, {"fail"})
        warning_checks == CountKinds(kinds, {"warn"})
        overall_status == IF failing_checks > 0 THEN "fail"
                          ELSE IF warning_checks > 0 THEN "warn"
                          ELSE "pass"
    IN  [checks_run |-> Len(checks),
         failing_checks |-> failing_checks,
         warnings_or_skips |-> CountKinds(kinds, {"warn", "skip"}),
         overall_status |-> overall_status,
         overall_ok |-> overall_status = "pass"]

\* SuiteCheck.run_once, for a run() that returned result
run_once(check_id, name, result, detail) ==
    [id |-> check_id, name |-> name, status |-> result.status,
     detail |-> detail, result |-> result]

\* Suite.report_from_items
report_from_items(name, checks) ==
    LET checks_summary == summary_from_checks(checks) IN
    [suite |-> name, checks |-> checks, summary |-> checks_summary,
     ok |-> checks_summary.overall_ok]

\* the SuiteChecks of _single_time_cover_report, run in order by Suite.run
TimeCoverItems(context, check_time_monotonic, check_time_regular_spacing) ==
    LET time_missing == missing_slices_run_report(context)
        time_monotonic == monotonic_run_report(context)
        time_regular_spacing == spacing_run_report(context)
    IN  <<run_once("time.missing_slices", "Missing Time Slices", time_missing,
                   "missing_slices=" \o ToString(time_missing.missing_slice_count))>>
        \o (IF check_time_monotonic
            THEN <<run_once("time.monotonic_increasing", "Monotonic Time Order",
                            time_monotonic,
                            "order_violations="
                                \o ToString(time_monotonic.order_violation_count))>>
            ELSE <<>>)
        \o (IF check_time_regular_spacing
            THEN <<run_once("time.regular_spacing", "Regular Time Spacing",
                            time_regular_spacing,
                            "irregular_intervals="
                                \o ToString(time_regular_spacing.irregular_interval_count))>>
            ELSE <<>>)

\* what a call of TimeCoverCheck.check or of a function under it ends with
CoverReturned(value) == [kind |-> "returned", value |-> value, exc |-> None, msg |-> None]
CoverRaised(exc, msg) == [kind |-> "raised", value |-> None, exc |-> exc, msg |-> msg]

\* _single_time_cover_report: the report dict it builds reads
\* suite_report["group"], a key that Suite.report_from_items does not set
single_time_cover_report(context, check_time_monotonic, check_time_regular_spacing) ==
    LET suite_report ==
            report_from_items("time_cover",
                TimeCoverItems(context, check_time_monotonic,
                               check_time_regular_spacing))
    IN  IF "group" \notin DOMAIN suite_report
        THEN CoverRaised("KeyError", "'group'")
        ELSE CoverReturned(
                 [group |-> suite_report.group,
                  suite |-> suite_report.suite,
                  time_dim |-> context.time_dim,
                  checks |-> suite_report.checks,
                  summary |-> suite_report.summary,
                  ok |-> suite_report.ok])

\* _time_statuses for the report of one variable
time_statuses(report) ==
    SelectSeq([i \in DOMAIN report.checks |-> Lower(Strip(report.checks[i].status))],
              LAMBDA status : status # "")

\* TimeCoverCheck(var_name=...).check(ds): run_report, which for one variable
\* is _single_time_cover_report, then the status of its leaf statuses
time_cover_check(context, check_time_monotonic, check_time_regular_spacing) ==
    LET report == single_time_cover_report(context, check_time_monotonic,
                                           check_time_regular_spacing)
    IN  IF report.kind = "raised" THEN report
        ELSE LET time_leaf_statuses == time_statuses(report.value) IN
             CoverReturned([status |-> status_from_leaf_statuses(time_leaf_statuses),
                            statuses |-> time_leaf_statuses])

InitTimeCover ==
    /\ LeafIdle
    /\ AtomicIdle
    /\ SuiteIdle
    /\ EngineIdle
    /\ FlattenIdle
    /\ RegistryIdle
    /\ RangesIdle
    /\ dt_check = None
    /\ dt_data \in TimeCoverContexts
    /\ dt_report = EmptyDict
    /\ dt_pc = "called"

\* report = MissingTimeSlicesCheck(...).run_report(ds)
RunMissingTimeSlices ==
    /\ dt_pc = "called"
    /\ dt_check' = "time.missing_slices"
    /\ dt_report' = missing_slices_run_report(dt_data)
    /\ dt_pc' = "returned"
    /\ UNCHANGED <<dt_data, leafVars, atomicVars, suiteVars, engineVars,
                   flattenVars, registryVars, rangeVars>>

\* result = TimeCoverCheck(var_name=..., check_time_monotonic=...,
\* check_time_regular_spacing=...).check(ds)
RunTimeCoverCheck(check_time_monotonic, check_time_regular_spacing) ==
    /\ dt_pc = "called"
    /\ dt_check' = "nc_check.time_cover"
    /\ dt_report' = time_cover_check(dt_data, check_time_monotonic,
                                     check_time_regular_spacing)
    /\ dt_pc' = "returned"
    /\ UNCHANGED <<dt_data, leafVars, atomicVars, suiteVars, engineVars,
                   flattenVars, registryVars, rangeVars>>

NextTimeCover ==
    \/ RunMissingTimeSlices
    \/ RunTimeMonotonicIncreasing
    \/ RunTimeRegularSpacing
    \/ \E check_time_monotonic, check_time_regular_spacing \in BOOLEAN :
           RunTimeCoverCheck(check_time_monotonic, check_time_regular_spacing)

SpecTimeCover == InitTimeCover /\ [][NextTimeCover]_vars

MissingSlicesReturned == dt_pc = "returned" /\ dt_check = "time.missing_slices"

\* the time indices, counted from 0, at which every value of the variable is
\* null or equal to a _FillValue it declares
MissingTimes ==
    {t \in 0..(Len(dt_data.da.slices) - 1) :
        \A k \in DOMAIN dt_data.da.slices[t + 1] :
            \/ dt_data.da.slices[t + 1][k] = "nan"
            \/ /\ dt_data.da.slices[t + 1][k] # "1.0"
               /\ dt_data.da.slices[t + 1][k] \in {dt_data.da.attrs_fill,
                                                   dt_data.da.encoding_fill}}

\* the indices of a list of index ranges
Covered(ranges) ==
    UNION {ranges[i].start_index..ranges[i].end_index : i \in DOMAIN ranges}

\* C21: for a variable with a time dimension, MissingTimeSlicesCheck counts in
\* missing_slice_count exactly the time indices at which every value over the
\* other dimensions is null or equal to the declared fill value, its
\* missing_slice_ranges are the ranges of indices_to_ranges over these indices,
\* and its status is fail exactly when there is such an index
C21_MissingSlicesReported ==
    (MissingSlicesReturned /\ dt_data.time_dim # None)
        => /\ dt_report.missing_slice_count = Cardinality(MissingTimes)
           /\ Covered(dt_report.missing_slice_ranges) = MissingTimes
           /\ dt_report.missing_slice_ranges
                  = range_records(SelectSeq([k \in 1..MaxTime |-> k - 1],
                                            LAMBDA t : t \in MissingTimes))
           /\ dt_report.status \in {"fail", "pass"}
           /\ (dt_report.status = "fail") <=> (MissingTimes # {})

\* a variable whose only missing time slices hold the fill value, in two
\* separate ranges
C21_Witness ==
    /\ MissingSlicesReturned
    /\ dt_data.time_dim # None
    /\ dt_data.da.encoding_fill = FillValue
    /\ Len(dt_data.da.slices) > 0
    /\ dt_data.da.slices[1] = Slice(FillValue, FillValue)
    /\ Len(dt_report.missing_slice_ranges) = 2
    /\ dt_report.status = "fail"

TimeCoverReturned == dt_pc = "returned" /\ dt_check = "nc_check.time_cover"

\* a detector's outcome for a variable without time: skipped_no_time, count 0
SkippedNoTime(count) == dt_report.status = "skipped_no_time" /\ count = 0

\* C22: for a variable with no resolvable time dimension, each of the three
\* time detectors returns skipped_no_time with a zero count, and
\* TimeCoverCheck.check raises no error and returns the status skipped
C22_NoTimeIsSkippedNotAnError ==
    (dt_pc = "returned" /\ dt_data.time_dim = None)
        => /\ MissingSlicesReturned => SkippedNoTime(dt_report.missing_slice_count)
           /\ MonotonicReturned => SkippedNoTime(dt_report.order_violation_count)
           /\ SpacingReturned => SkippedNoTime(dt_report.irregular_interval_count)
           /\ TimeCoverReturned
                  => /\ dt_report.kind = "returned"
                     /\ IF dt_report.kind = "returned"
                        THEN dt_report.value.status = "skipped"
                        ELSE FALSE

\* the scopes in the order the claims name them
ClaimedScopes == <<"data_vars", "coords", "dims">>

RECURSIVE ConcatAll(_)
ConcatAll(seqs) == IF seqs = <<>> THEN <<>> ELSE Head(seqs) \o ConcatAll(Tail(seqs))

\* the (definition, target) pairs of a scope: target by target, and for each
\* target the definitions of the scope in the order of the suite
ScopePairs(data_scope) ==
    LET defs == SelectSeq(suite_checks, LAMBDA d : d.data_scope = data_scope)
        targets == scope_targets(dataset, data_scope)
    IN  ConcatAll([t \in DOMAIN targets |->
                      [k \in DOMAIN defs |-> <<defs[k], targets[t].name>>]])

\* the names of the outcomes of a scope: one per pair, or one per definition
\* under its plain name when the scope has no target
ScopeOutcomeNames(data_scope) ==
    LET defs == SelectSeq(suite_checks, LAMBDA d : d.data_scope = data_scope)
        pairs == ScopePairs(data_scope)
    IN  IF scope_targets(dataset, data_scope) = <<>>
        THEN [k \in DOMAIN defs |-> defs[k].name]
        ELSE [k \in DOMAIN pairs |->
                 ScopedName(pairs[k][1].name, data_scope, pairs[k][2])]

ExpectedCalls == ConcatAll([i \in DOMAIN ClaimedScopes |-> ScopePairs(ClaimedScopes[i])])
ExpectedNames ==
    ConcatAll([i \in DOMAIN ClaimedScopes |-> ScopeOutcomeNames(ClaimedScopes[i])])

\* C23: CheckSuite.run executes the checks scope by scope in the order
\* data_vars, coords, dims, whatever the order of the definitions; inside a
\* scope target by target, and for each target the scope's definitions in
\* definition order; the checks list of the report holds the outcomes in the
\* order of execution
C23_ScopeTargetDefinitionOrder ==
    /\ IsPrefix(calls, ExpectedCalls)
    /\ cs_pc = "done"
        => /\ calls = ExpectedCalls
           /\ [i \in DOMAIN results |-> results[i].name] = ExpectedNames

\* a suite that lists its dims check before its data_vars check ran the
\* data_vars check on both variables first
C23_Witness ==
    /\ cs_pc = "done"
    /\ Len(suite_checks) = 2
    /\ suite_checks[1].data_scope = "dims"
    /\ suite_checks[2].data_scope = "data_vars"
    /\ dataset.data_vars = <<"salt", "temp">>
    /\ dataset.sizes = <<"time">>
    /\ calls = <<<<suite_checks[2], "salt">>, <<suite_checks[2], "temp">>,
                 <<suite_checks[1], "time">>>>
    /\ Len(results) = 3

\* C24: in every report of CheckSuite.run, summary.checks_run is the length of
\* the checks list and is passed + skipped + failed; overall_status is failed
\* if an outcome failed, else passed if an outcome passed, else skipped
C24_SummaryCountsOutcomes ==
    cs_pc = "done"
        => /\ summary.checks_run = Len(results)
           /\ summary.checks_run = summary.passed + summary.skipped + summary.failed
           /\ summary.failed
                  = Cardinality({i \in DOMAIN results : results[i].status = "failed"})
           /\ summary.passed
                  = Cardinality({i \in DOMAIN results : results[i].status = "passed"})
           /\ summary.overall_status
                  = IF \E i \in DOMAIN results : results[i].status = "failed"
                    THEN "failed"
                    ELSE IF \E i \in DOMAIN results : results[i].status = "passed"
                    THEN "passed"
                    ELSE "skipped"

\* a report with a passed and a failed outcome, whose overall status is failed
C24_Witness ==
    /\ cs_pc = "done"
    /\ summary.passed > 0
    /\ summary.failed > 0
    /\ summary.checks_run = 4
    /\ summary.overall_status = "failed"

\* the scopes of the suite that have definitions and no target in the dataset
EmptyScopes ==
    {ClaimedScopes[i] : i \in {j \in DOMAIN ClaimedScopes :
        /\ \E k \in DOMAIN suite_checks : suite_checks[k].data_scope = ClaimedScopes[j]
        /\ scope_targets(dataset, ClaimedScopes[j]) = <<>>}}

\* the outcomes a report holds for the definition d of an empty scope
EmptyScopeOutcomes(d) ==
    {i \in DOMAIN results :
        /\ results[i].name = d.name
        /\ HasKey(results[i].details, "reason")
        /\ results[i].details.data_scope = d.data_scope}

\* C25: for a scope without target in the dataset, CheckSuite.run calls none
\* of the scope's checks and reports for each definition of the scope exactly
\* one skipped outcome under the definition's plain name with details.reason =
\* no_scope_targets
C25_EmptyScopeSkipsWithoutCalling ==
    /\ \A i \in DOMAIN calls : calls[i][1].data_scope \notin EmptyScopes
    /\ cs_pc = "done"
        => \A k \in DOMAIN suite_checks :
               LET d == suite_checks[k] IN
               d.data_scope \in EmptyScopes
                   => /\ Cardinality(EmptyScopeOutcomes(d)) = Occurrences(d)
                      /\ \A i \in EmptyScopeOutcomes(d) :
                             /\ results[i].status = "skipped"
                             /\ results[i].details.reason = "no_scope_targets"
                      /\ \A i \in DOMAIN results :
                             \A v \in {"temp", "salt", "time", "none"} :
                                 results[i].name # ScopedName(d.name, d.data_scope, v)

\* a dataset without data variables: the check that would raise was reported
\* as skipped and never called
C25_Witness ==
    /\ cs_pc = "done"
    /\ dataset.data_vars = <<>>
    /\ Len(suite_checks) = 2
    /\ suite_checks[1].fn = "exploding_check"
    /\ calls = <<>>
    /\ results[1].name = "demo.explode"
    /\ results[1].status = "skipped"

\* the check of d raises or returns no AtomicCheckResult for the target v
Misbehaves(d, v) ==
    LET out == DefinitionRun(d, TargetData(d.data_scope, v)) IN
    out.kind = "raise" \/ out.value.type # "AtomicCheckResult"

\* C26: CheckSuite.run reports exactly one outcome per (target, definition)
\* pair of every scope that has targets, also when checks raise or return a
\* value that is no AtomicCheckResult: such a pair gets a failed outcome, and
\* the pairs after it are executed and reported all the same
C26_OneOutcomePerPairDespiteFailures ==
    cs_pc = "done"
        => /\ Len(calls) = Len(ExpectedCalls)
           /\ Len(results) = Len(ExpectedNames)
           /\ \A k \in DOMAIN suite_checks :
                  LET d == suite_checks[k] IN
                  \A v \in TargetNames(d.data_scope) :
                      LET named == OutcomesNamed(ScopedName(d.name, d.data_scope, v)) IN
                      /\ Cardinality(named) = Occurrences(d)
                      /\ Misbehaves(d, v)
                             => \E i \in named : results[i].status = "failed"

\* the first check raised on both variables, and the second check still ran
\* on both
C26_Witness ==
    /\ cs_pc = "done"
    /\ Len(suite_checks) = 2
    /\ suite_checks[1].fn = "exploding_check"
    /\ suite_checks[2].fn = "pass_check"
    /\ dataset.data_vars = <<"temp", "salt">>
    /\ Len(results) = 4
    /\ results[1].status = "failed"
    /\ results[2].status = "passed"
    /\ results[3].status = "failed"
    /\ results[4].status = "passed"

\* the span of the coordinate values of an axis: greatest minus least
Span(values) ==
    LET S == {values[k] : k \in DOMAIN values} IN
    (CHOOSE x \in S : \A y \in S : y <= x) - (CHOOSE x \in S : \A y \in S : x <= y)

\* the report of a skipped land/ocean check: nothing was looked up
SkippedNonGlobal ==
    [enabled |-> TRUE, status |-> "skipped_non_global", mismatch_count |-> 0,
     land_points_checked |-> 0, ocean_points_checked |-> 0,
     land_mismatches |-> <<>>, ocean_mismatches |-> <<>>]

\* C27: the enabled LandOceanOffsetCheck on a grid whose longitude span is
\* below 300 or whose latitude span is below 120 returns skipped_non_global
\* with mismatch_count 0 and no land or ocean point checked, whatever the data
\* hold; with a longitude span of at least 300 and a latitude span of at least
\* 120 it does not skip and checks all ten points
C27_SkipsBelowGlobalSpans ==
    (LandOceanReturned /\ dt_data.enabled)
        => IF Span(dt_data.grid.lon_values) < 300 \/ Span(dt_data.grid.lat_values) < 120
           THEN dt_report = SkippedNonGlobal
           ELSE /\ dt_report.status \in {"pass", "fail"}
                /\ dt_report.land_points_checked = 5
                /\ dt_report.ocean_points_checked = 5

\* a grid over all longitudes whose latitudes span 117 degrees was skipped,
\* though its data hold numbers at the land points
C27_Witness ==
    /\ LandOceanReturned
    /\ dt_data.enabled
    /\ Span(dt_data.grid.lon_values) >= 300
    /\ Span(dt_data.grid.lat_values) = 117
    /\ LastSlice = AllPresent
    /\ dt_report.status = "skipped_non_global"
    /\ dt_report.land_points_checked = 0

----------------------------------------------------------------------------
(* checks/ocean.py: _normalize_lon_for_grid on the convention of a grid *)

\* the longitude axes whose convention is detected
LonAxes == {grid.lon_values : grid \in GlobalGrids \cup RegionalGrids}

InitNormalizeLon ==
    /\ LeafIdle
    /\ AtomicIdle
    /\ SuiteIdle
    /\ EngineIdle
    /\ FlattenIdle
    /\ RegistryIdle
    /\ RangesIdle
    /\ dt_check = "normalize_lon_for_grid"
    /\ dt_data \in [lon : (0 - MaxLon)..MaxLon, lon_values : LonAxes]
    /\ dt_report = EmptyDict
    /\ dt_pc = "called"

\* target_lon = _normalize_lon_for_grid(lon, _longitude_convention(lon_values))
CallNormalizeLonForGrid ==
    /\ dt_pc = "called"
    /\ dt_check = "normalize_lon_for_grid"
    /\ LET convention == longitude_convention(dt_data.lon_values) IN
       dt_report' = [convention |-> convention,
                     target_lon |-> normalize_lon_for_grid(dt_data.lon, convention)]
    /\ dt_pc' = "returned"
    /\ UNCHANGED <<dt_check, dt_data, leafVars, atomicVars, suiteVars, engineVars,
                   flattenVars, registryVars, rangeVars>>

NextNormalizeLon == CallNormalizeLonForGrid

SpecNormalizeLon == InitNormalizeLon /\ [][NextNormalizeLon]_vars

NormalizeReturned == dt_pc = "returned" /\ dt_check = "normalize_lon_for_grid"

\* a and b differ by a multiple of 360
Congruent(a, b) == \E n \in (0 - 3)..3 : a - b = 360 * n

\* C28: _normalize_lon_for_grid maps a longitude to a value congruent to it
\* modulo 360 that lies in [0, 360) for a grid of convention 0..360 and in
\* [-180, 180) for a grid of convention -180..180, and returns it unchanged
\* for an unrecognised convention
C28_NormalizedIntoConvention ==
    NormalizeReturned
        => /\ dt_report.convention \in {"0_360", "-180_180", "other"}
           /\ dt_report.convention = "0_360"
                  => /\ Congruent(dt_report.target_lon, dt_data.lon)
                     /\ 0 <= dt_report.target_lon
                     /\ dt_report.target_lon < 360
           /\ dt_report.convention = "-180_180"
                  => /\ Congruent(dt_report.target_lon, dt_data.lon)
                     /\ 0 - 180 <= dt_report.target_lon
                     /\ dt_report.target_lon < 180
           /\ dt_report.convention = "other"
                  => dt_report.target_lon = dt_data.lon

\* the reference longitude -140 on a grid of longitudes 0..357 became 220
C28_Witness ==
    /\ NormalizeReturned
    /\ dt_data.lon = 0 - 140
    /\ dt_report.convention = "0_360"
    /\ dt_report.target_lon = 220

----------------------------------------------------------------------------
(* checks/ocean.py: MissingLongitudeBandsCheck on two variables of one grid *)

\* sections that miss no longitude, longitude 0 alone, or both longitudes
NoBand == [lat \in Contents(LatOrder) |-> [lon \in Contents(LonOrder) |-> "1.0"]]
WestBand ==
    [lat \in Contents(LatOrder) |->
        [lon \in Contents(LonOrder) |-> IF lon = 0 THEN "nan" ELSE "1.0"]]
FullBand == [lat \in Contents(LatOrder) |-> [lon \in Contents(LonOrder) |-> "nan"]]
BandSections == {NoBand, WestBand, FullBand}

\* two variables on the same grid, each of the given number of time steps
OceanVariablePairs(steps) ==
    {[left |-> OceanData("time", l), right |-> OceanData("time", r)] :
        l \in [1..steps -> BandSections], r \in [1..steps -> BandSections]}

InitLongitudePair ==
    /\ LeafIdle
    /\ AtomicIdle
    /\ SuiteIdle
    /\ EngineIdle
    /\ FlattenIdle
    /\ RegistryIdle
    /\ RangesIdle
    /\ dt_check = "ocean.missing_longitude_bands"
    /\ \E steps \in 1..MaxPairTime : dt_data \in OceanVariablePairs(steps)
    /\ dt_report = EmptyDict
    /\ dt_pc = "called"

\* MissingLongitudeBandsCheck(...).run_report(ds) on each of the two datasets
RunMissingLongitudeBandsOnBoth ==
    /\ dt_pc = "called"
    /\ dt_check = "ocean.missing_longitude_bands"
    /\ dt_report' = [left |-> missing_longitude_run_report(TRUE, dt_data.left),
                     right |-> missing_longitude_run_report(TRUE, dt_data.right)]
    /\ dt_pc' = "returned"
    /\ UNCHANGED <<dt_check, dt_data, leafVars, atomicVars, suiteVars, engineVars,
                   flattenVars, registryVars, rangeVars>>

NextLongitudePair == RunMissingLongitudeBandsOnBoth

SpecLongitudePair == InitLongitudePair /\ [][NextLongitudePair]_vars

PairReturned == dt_pc = "returned" /\ "left" \in DOMAIN dt_report

\* the number of time steps of the two variables
PairTime == Len(dt_data.left.sections)

\* the time slices 0, T div 2 and T-1
NamedSlices == {0, PairTime \div 2, PairTime - 1}

\* the two variables agree on the slices 0, T div 2 and T-1
AgreeOnNamedSlices ==
    \A t \in NamedSlices : Isel(dt_data.left, t) = Isel(dt_data.right, t)

\* the two variables differ in some other slice
DifferElsewhere ==
    \E t \in (0..(PairTime - 1)) \ NamedSlices :
        Isel(dt_data.left, t) # Isel(dt_data.right, t)

\* C29: two datasets with the same grid that agree on the time slices 0,
\* T div 2 and T-1 get the same status, the same missing longitudes and the
\* same sampled_time_indices, whatever their other time slices hold
C29_DependsOnNamedSlicesOnly ==
    (PairReturned /\ AgreeOnNamedSlices)
        => /\ dt_report.left.status = dt_report.right.status
           /\ dt_report.left.missing_longitudes = dt_report.right.missing_longitudes
           /\ dt_report.left.sampled_time_indices = dt_report.right.sampled_time_indices
           /\ Contents(dt_report.left.sampled_time_indices) \subseteq NamedSlices

\* four time steps: both variables miss longitude 0 in slices 0, 2 and 3, one
\* of them misses nothing in slice 1, and both fail with the same longitudes
C29_Witness ==
    /\ PairReturned
    /\ PairTime = 4
    /\ AgreeOnNamedSlices
    /\ DifferElsewhere
    /\ Isel(dt_data.left, 1) = NoBand
    /\ Isel(dt_data.right, 1) = WestBand
    /\ dt_report.left.status = "fail"
    /\ dt_report.right.status = "fail"
    /\ dt_report.left.missing_longitudes = <<0 - 180>>
    /\ dt_report.left.sampled_time_indices = <<3, 0, 2>>

----------------------------------------------------------------------------
(* engine/defaults.py: register_default_checks under run_suite_checks *)

\* run_suite_checks, which calls register_default_checks first, has finished
SuiteCallFinished == rs_pc \in {"returned", "raised"}

\* the call failed in get_check with the unknown-check error for a default key
UnknownDefaultKeyError ==
    /\ rs_result.kind = "raised"
    /\ rs_result.exc = "KeyError"
    /\ \E key \in Contents(DEFAULT_ORDER) :
           /\ \E i \in DOMAIN rs_enabled : rs_enabled[i].key = key /\ rs_enabled[i].enabled
           /\ rs_result.msg = UnknownCheckMessage(registry, key)

\* C30: after register_default_checks returns every key of default_check_order
\* is registered, whatever the registry held before the call, so that
\* run_suite_checks never fails with an unknown-check error for an enabled
\* default key
C30_DefaultKeysAlwaysRegistered ==
    SuiteCallFinished
        => /\ Contents(default_check_order) \subseteq RegistryKeys(registry)
           /\ ~UnknownDefaultKeyError

----------------------------------------------------------------------------
(* run_suite_checks on reports of every status kind *)

\* maps that name keys of the default order, in that order
ReportMaps ==
    {m \in SeqUpTo([key : Contents(DEFAULT_ORDER), enabled : BOOLEAN],
                   Len(DEFAULT_ORDER)) :
        \A i, j \in DOMAIN m : i < j =>
            \E a, b \in DOMAIN DEFAULT_ORDER :
                a < b /\ DEFAULT_ORDER[a] = m[i].key /\ DEFAULT_ORDER[b] = m[j].key}

\* what run_report may do in these runs
ReportOutcomes ==
    { ReportRaised("ValueError", "Dataset has no data variables to check."),
      ReportReturned(Report(FALSE, <<>>, "pass", "completed")),
      ReportReturned(Report(FALSE, <<>>, "fail", "checker_error=true")),
      ReportReturned(Report(TRUE, <<>>, "warn", "variables=0")),
      ReportReturned(Report(TRUE,
          <<RawCheck("time.missing", "Missing slices", "fail", "2 missing", "temp"),
            RawCheck("ocean.edge", None, "pass", None, "salt")>>,
          "fail", "completed")),
      ReportReturned(Report(TRUE,
          <<RawCheck(None, None, "skipped", None, None)>>, "pass", "completed")),
      ReportReturned(Report(TRUE,
          <<RawCheck("", "Monotonic", " Warning", "", None),
            RawCheck("time.skip", None, "skip_no_time", None, None)>>,
          "warn", "completed")),
      ReportReturned(Report(TRUE,
          <<NotADict, RawCheck("ocean.offset", None, "passed", None, "salt")>>,
          "pass", "completed")),
      ReportReturned(Report(TRUE,
          <<RawCheck(None, "", None, "no status", None),
            RawCheck("cf.units", None, "FAILED", None, "temp")>>,
          "fail", "completed")) }

RunReportChecks == RunSuiteChecksOn(ReportMaps, ReportOutcomes)

NextReport == RunReportChecks

SpecReport == InitEngine /\ [][NextReport]_vars

\* the kind of each status that the reports above hold
ClaimedKind(status) ==
    CASE status \in {"fail", "FAILED"} -> "fail"
      [] status \in {" Warning", "warn"} -> "warn"
      [] status \in {"skipped", "skip_no_time"} -> "skip"
      [] status \in {"pass", "passed", "unknown"} -> "pass"

\* the outcomes of the report that belong to the group of key
OutcomesOf(key) ==
    SelectSeq(rs_result.report.checks, LAMBDA item : item.group = key)

HowMany(outcomes, kinds) ==
    Cardinality({i \in DOMAIN outcomes : ClaimedKind(outcomes[i].status) \in kinds})

\* the one rule: fail if any outcome is fail-kind, else warn if any is
\* warn-kind, else pass
RuleStatus(outcomes) ==
    IF HowMany(outcomes, {"fail"}) > 0 THEN "fail"
    ELSE IF HowMany(outcomes, {"warn"}) > 0 THEN "warn"
    ELSE "pass"

\* the group summary of key, or an empty one when the report has no such group
GroupOrNone(key) ==
    IF key \in DOMAIN rs_result.report.groups
    THEN rs_result.report.groups[key]
    ELSE [checks_run |-> 0, failing_checks |-> 0, warnings_or_skips |-> 0,
          status |-> "pass", overall_ok |-> TRUE]

StatusRank(status) ==
    CASE status = "fail" -> 3 [] status = "warn" -> 2 [] status = "pass" -> 1

\* C5: in a report returned, every group summary follows the one rule over
\* the outcomes of its group and the suite summary follows it over all
\* outcomes: checks_run counts the outcomes, failing_checks the fail-kind
\* ones, warnings_or_skips the warn-kind and skip-kind ones, the status is
\* fail, else warn, else pass, and overall_ok says that the status is pass;
\* the suite counts are the sums of the group counts and the suite status is
\* the worst group status.
C5_OneSummaryRule ==
    rs_pc = "returned" =>
        LET report == rs_result.report
            sm == report.summary
            c == GroupOrNone("compliance")
            o == GroupOrNone("ocean_cover")
            t == GroupOrNone("time_cover")
        IN
        /\ \A key \in DOMAIN report.groups :
               LET g == report.groups[key] IN
               /\ g.checks_run = Len(OutcomesOf(key))
               /\ g.failing_checks = HowMany(OutcomesOf(key), {"fail"})
               /\ g.warnings_or_skips = HowMany(OutcomesOf(key), {"warn", "skip"})
               /\ g.status = RuleStatus(OutcomesOf(key))
               /\ g.overall_ok = (g.status = "pass")
        /\ sm.checks_run = Len(report.checks)
        /\ sm.failing_checks = HowMany(report.checks, {"fail"})
        /\ sm.warnings_or_skips = HowMany(report.checks, {"warn", "skip"})
        /\ sm.overall_status = RuleStatus(report.checks)
        /\ sm.overall_ok = (sm.overall_status = "pass")
        /\ sm.checks_run = c.checks_run + o.checks_run + t.checks_run
        /\ sm.failing_checks = c.failing_checks + o.failing_checks + t.failing_checks
        /\ sm.warnings_or_skips =
               c.warnings_or_skips + o.warnings_or_skips + t.warnings_or_skips
        /\ \A g \in {c, o, t} : StatusRank(sm.overall_status) >= StatusRank(g.status)
        /\ \E g \in {c, o, t} : sm.overall_status = g.status

\* a report of three groups: one of a lone skip, which passes, one of a warning
\* and a skip, and one with a failure
C5_Witness ==
    /\ rs_pc = "returned"
    /\ DOMAIN rs_result.report.groups = {"compliance", "ocean_cover", "time_cover"}
    /\ rs_result.report.groups["compliance"] =
           [checks_run |-> 1, failing_checks |-> 0, warnings_or_skips |-> 1,
            status |-> "pass", overall_ok |-> TRUE]
    /\ rs_result.report.groups["ocean_cover"].status = "warn"
    /\ rs_result.report.groups["ocean_cover"].warnings_or_skips = 2
    /\ rs_result.report.groups["time_cover"].status = "fail"
    /\ rs_result.report.summary =
           [checks_run |-> 5, failing_checks |-> 1, warnings_or_skips |-> 3,
            overall_status |-> "fail", overall_ok |-> FALSE]

====
